---------------------------- MODULE Spec2Model ----------------------------
(***************************************************************************)
(* Model of the image composition engine (src/image_process.py):          *)
(* ImageProcessor.resize_image, create_combined_image, add_labels,        *)
(* load_images and save_image, of the preview and export handlers of the  *)
(* window (src/gui.py) and of the batch driver (src/batch_process.py).    *)
(*                                                                         *)
(* An image is the record [width, height] of its pixel dimensions; pixel  *)
(* contents play no part in the geometry.  Python floats are IEEE-754     *)
(* binary64; int(w * (n / d)) and int(x / (n / d)) are computed with the  *)
(* two roundings the interpreter performs (see IntMulQuot, IntDivQuot).   *)
(***************************************************************************)
EXTENDS Integers, Sequences, FiniteSets, TLC

VARIABLES
    images,     \* ImageProcessor.images: the sequence of loaded images
    call,       \* the resize_image call under observation and its results
    combined,   \* what create_combined_image returned (NoCall before it ran)
    labelled,   \* what add_labels drew (NoCall before it ran)
    image_paths,\* ImageProcessor.image_paths: the path of each loaded image
    platform,   \* what the installed PIL build and the machine's memory do
    fs,         \* the file system: directories, files, what cannot be written
    gui,        \* the window: the handler that last ran and what it showed
    batch       \* BatchProcessor: its folders, its position, its signals

vars == <<images, call, combined, labelled, image_paths, platform, fs, gui, batch>>

\* the state outside the engine call under observation
session == <<image_paths, platform, fs, gui, batch>>

\* Python's None where a canvas is expected
None == [none |-> TRUE]
\* aspect_ratio=None ("if aspect_ratio:" is false)
FreeRatio == <<>>
NoCall == [called |-> FALSE]
IdleCall == [phase |-> "idle"]

Image(w, h) == [width |-> w, height |-> h]

\* a platform where every PIL call on a valid image succeeds
NormalPlatform == [empty_resize |-> "returns", canvas_memory |-> "enough"]
\* nothing on disk, no handler has run, no batch was started
EmptyFS == [sources |-> <<>>, dirs |-> {}, files |-> {}, no_mkdir |-> {}, no_write |-> {}]
IdleGui ==
    [handler |-> "none", outcome |-> "none", current_preview |-> None,
     images_before |-> <<>>, substituted |-> <<>>]
NoBatch == [started |-> FALSE]
\* image_paths of a processor that holds imgs: one distinct path per image
PathsOf(imgs) == [i \in 1..Len(imgs) |-> i]
\* an engine call observed on its own: no window, no batch, a normal platform
EngineOnly ==
    /\ image_paths = PathsOf(images)
    /\ platform = NormalPlatform
    /\ fs = EmptyFS
    /\ gui = IdleGui
    /\ batch = NoBatch

Max(a, b) == IF a >= b THEN a ELSE b
Min(a, b) == IF a <= b THEN a ELSE b

----------------------------------------------------------------------------
(* Python float arithmetic (IEEE-754 binary64, round-to-nearest-even)      *)

RECURSIVE Log2Floor(_)
\* floor(log2(k)) for k >= 1
Log2Floor(k) == IF k < 2 THEN 0 ELSE 1 + Log2Floor(k \div 2)

RECURSIVE Pow2(_)
Pow2(e) == IF e = 0 THEN 1 ELSE 2 * Pow2(e - 1)

RECURSIVE ShiftUntil(_, _, _)
\* the least j >= from with n * 2^j >= d
ShiftUntil(n, d, from) ==
    IF n * Pow2(from) >= d THEN from ELSE ShiftUntil(n, d, from + 1)

\* the binary exponent a of the quotient n / d:  2^a <= n/d < 2^(a+1)
QuotExp(n, d) ==
    IF n >= d THEN Log2Floor(n \div d) ELSE 0 - ShiftUntil(n, d, 1)

RECURSIVE DoubleMod(_, _, _)
\* (r * 2^t) mod m for r < m <= 2^22, by doublings taken eight at a time
DoubleMod(r, t, m) ==
    IF t = 0 THEN r
    ELSE IF t >= 8 THEN DoubleMod((256 * r) % m, t - 8, m)
    ELSE DoubleMod((2 * r) % m, t - 1, m)

\* The rounding of the float n / d.  With a == QuotExp(n, d) and t == 52 - a
\* the float is M / 2^t for the 53-bit integer M nearest to n * 2^t / d
\* (ties to even M).  QuotRound is the signed residue M * d - n * 2^t:
\* negative when the float lies below n / d, positive when above, 0 if exact.
QuotRound(n, d) ==
    LET t   == 52 - QuotExp(n, d)
        r2  == DoubleMod(n % (2 * d), t, 2 * d)
        r   == r2 % d
        odd == r2 >= d
    IN  IF 2 * r < d \/ (2 * r = d /\ ~odd) THEN 0 - r ELSE d - r

\* u * v > y * z for operands below 2^20, without leaving 32-bit integers
ProductGT(u, v, y, z) ==
    LET hi(a, b) == (a \div 1024) * b + ((a % 1024) * b) \div 1024
        lo(a, b) == ((a % 1024) * b) % 1024
    IN  \/ hi(u, v) > hi(y, z)
        \/ hi(u, v) = hi(y, z) /\ lo(u, v) > lo(y, z)

\* u * v > y * 2^s
ScaledGT(u, v, y, s) ==
    IF s >= 0 THEN ProductGT(u, v, y, Pow2(s))
    ELSE ProductGT(u, v * Pow2(0 - s), y, 1)

\* The distance from the integer k >= 1 down to the next float below it is
\* 2^(e-52) for 2^e < k < 2^(e+1) and 2^(e-53) for k = 2^e.  A product or
\* quotient that falls short of k by more than half of that distance rounds
\* to a float below k, and int() then yields k - 1.  HalfGapExp is that
\* half distance's exponent, shifted by the exponent of n / d.
HalfGapExp(k, n, d) ==
    LET e == Log2Floor(k)
        p == IF k = Pow2(e) THEN 1 ELSE 0
    IN  e - QuotExp(n, d) - 1 - p

\* int(w * (n / d)) for integers w >= 0, n > 0, d > 0.
\* When w*n/d is no integer its fraction is at least 1/d, far more than the
\* rounding error, and int() is the exact floor.  When w*n/d is an integer k
\* the float product is k or just below k, decided by the two roundings.
IntMulQuot(w, n, d) ==
    LET k == (w * n) \div d
        r == QuotRound(n, d)
    IN  IF (w * n) % d # 0 \/ w = 0 \/ r >= 0 THEN k
        ELSE IF ScaledGT(w, 0 - r, d, HalfGapExp(k, n, d)) THEN k - 1 ELSE k

\* int(x / (n / d)) for integers x >= 0, n > 0, d > 0.
IntDivQuot(x, n, d) ==
    LET k == (x * d) \div n
        r == QuotRound(n, d)
    IN  IF (x * d) % n # 0 \/ x = 0 \/ r <= 0 THEN k
        ELSE IF ScaledGT(k, r, n, HalfGapExp(k, n, d)) THEN k - 1 ELSE k

\* w / h > rw / rh on floats.  Two different quotients of integers below 2^20
\* differ by far more than one rounding, so the floats compare as the
\* rationals do; equal rationals round to the same float.
RatioGT(w, h, rw, rh) == w * rh > rw * h
RatioEQ(w, h, rw, rh) == w * rh = rw * h

----------------------------------------------------------------------------
(* PIL calls used by the engine                                            *)

Raised == [exc |-> TRUE, img |-> Image(0, 0)]
Return(img) == [exc |-> FALSE, img |-> img]

\* Image.resize((w, h), ...): a copy when the size is unchanged; ValueError
\* "height and width must be > 0" for a dimension below 1.  Resampling a
\* source without pixels to a positive size returns or raises as the
\* installed build does.
PILResize(img, w, h) ==
    IF w = img.width /\ h = img.height THEN Return(img)
    ELSE IF w < 1 \/ h < 1 THEN Raised
    ELSE IF (img.width = 0 \/ img.height = 0) /\ platform.empty_resize = "raises"
    THEN Raised
    ELSE Return(Image(w, h))

\* Image.crop((left, upper, right, lower)): ValueError when right < left or
\* lower < upper; the result has the box's size.
PILCrop(img, left, upper, right, lower) ==
    IF right < left \/ lower < upper THEN Raised
    ELSE Return(Image(right - left, lower - upper))

\* round_aspect of Image.thumbnail: of floor and ceil of the quotient t / d,
\* the one whose aspect is nearer the source's, and at least 1.  min() takes
\* the floor when the two keys are equal; where the two are equally near in
\* exact arithmetic the float keys decide, and the sources of this model
\* have no such tie.  across: the side computed is the width (key n / y);
\* otherwise it is the height (key x / n, and 0 for n = 0).
RoundAspect(t, d, across) ==
    LET lo == t \div d
        hi == IF t % d = 0 THEN lo ELSE lo + 1
        n  == IF lo = 0 /\ ~across THEN lo
              ELSE IF across
              THEN IF t - lo * d <= hi * d - t THEN lo ELSE hi
              ELSE IF (t - d * lo) * hi <= (d * hi - t) * lo THEN lo ELSE hi
    IN  Max(n, 1)

max_size == 1024

\* thumbnail.thumbnail((max_size, max_size), Image.LANCZOS), which the loader
\* calls when max(width, height) > max_size: the aspect ratio is kept, the
\* longer side becomes max_size
Thumbnail(img) ==
    IF Max(img.width, img.height) <= max_size THEN img
    ELSE IF img.width <= img.height
    THEN Image(RoundAspect(max_size * img.width, img.height, TRUE), max_size)
    ELSE Image(max_size, RoundAspect(max_size * img.height, img.width, FALSE))

----------------------------------------------------------------------------
(* ImageProcessor.resize_image                                             *)

\* the filter choice; it is passed to Image.resize and crop never sees it
ResizeAlgorithm(fast) == IF fast THEN "NEAREST" ELSE "LANCZOS"

\* the dimensions the forced-ratio branch resizes to
ForcedSize(img, size, rw, rh) ==
    IF RatioGT(img.width, img.height, rw, rh)
    THEN <<size, IntDivQuot(size, rw, rh)>>
    ELSE <<IntMulQuot(size, rw, rh), size>>

\* ForcedCrop with the ratio applied to the wrong axis
ForcedCropInverted(img, wide, equal, rw, rh) ==
    IF equal THEN Return(img)
    ELSE IF wide
    THEN LET cw   == IntMulQuot(img.height, rh, rw)
             left == (img.width - cw) \div 2
         IN  PILCrop(img, left, 0, left + cw, img.height)
    ELSE LET ch  == IntDivQuot(img.width, rh, rw)
             top == (img.height - ch) \div 2
         IN  PILCrop(img, 0, top, img.width, top + ch)

\* the crop that follows the forced-ratio resize; wide and equal are decided
\* on the source's ratio (current_ratio is computed before the resize)
ForcedCrop(img, wide, equal, rw, rh) ==
    IF equal THEN Return(img)
    ELSE IF wide
    THEN LET cw   == IntMulQuot(img.height, rw, rh)
             left == (img.width - cw) \div 2
         IN  PILCrop(img, left, 0, left + cw, img.height)
    ELSE LET ch  == IntDivQuot(img.width, rw, rh)
             top == (img.height - ch) \div 2
         IN  PILCrop(img, 0, top, img.width, top + ch)

ForcedRatio(img, size, aspect_ratio) ==
    LET rw == aspect_ratio[1]
        rh == aspect_ratio[2]
    IN  IF img.height = 0 THEN img            \* ZeroDivisionError, except: return img
        ELSE
        LET wide  == RatioGT(img.width, img.height, rw, rh)
            equal == RatioEQ(img.width, img.height, rw, rh)
            new   == ForcedSize(img, size, rw, rh)
            rs    == PILResize(img, new[1], new[2])
        IN  IF rs.exc THEN img                \* except: return img (still the source)
            ELSE LET cr == ForcedCrop(rs.img, wide, equal, rw, rh)
                 IN  IF cr.exc THEN rs.img    \* except: return img (now the resized one)
                     ELSE cr.img

\* the edge the uniform modes scale to the target size
ScaleEdge(img, mode) ==
    IF mode = "longest_edge" THEN Max(img.width, img.height)
    ELSE Min(img.width, img.height)

UniformScale(img, mode, size) ==
    LET edge == ScaleEdge(img, mode)
    IN  IF edge = 0 THEN img                  \* ZeroDivisionError, except: return img
        ELSE
        LET rs == PILResize(img, IntMulQuot(img.width, size, edge),
                                 IntMulQuot(img.height, size, edge))
        IN  IF rs.exc THEN img ELSE rs.img

CropSquare(img, size) ==
    LET min_side == Min(img.width, img.height)
        left     == (img.width - min_side) \div 2
        top      == (img.height - min_side) \div 2
        cr       == PILCrop(img, left, top, left + min_side, top + min_side)
    IN  IF cr.exc THEN img
        ELSE LET rs == PILResize(cr.img, size, size)
             IN  IF rs.exc THEN cr.img ELSE rs.img

\* resize_image whose preview filter leaves out the forced ratio
resize_image_fast_ignores_ratio(img, mode, size, aspect_ratio, fast) ==
    IF mode = "original" THEN img
    ELSE IF aspect_ratio # FreeRatio /\ ~fast THEN ForcedRatio(img, size, aspect_ratio)
    ELSE IF mode \in {"longest_edge", "shortest_edge", "custom"}
    THEN UniformScale(img, mode, size)
    ELSE IF mode = "crop" THEN CropSquare(img, size)
    ELSE img

\* fast only selects resize_algorithm (ResizeAlgorithm), which Image.resize
\* takes as its filter: the size of what it returns is the size it is given
resize_image(img, mode, size, aspect_ratio, fast) ==
    IF mode = "original" THEN img
    ELSE IF aspect_ratio # FreeRatio THEN ForcedRatio(img, size, aspect_ratio)
    ELSE IF mode \in {"longest_edge", "shortest_edge", "custom"}
    THEN UniformScale(img, mode, size)
    ELSE IF mode = "crop" THEN CropSquare(img, size)
    ELSE img

----------------------------------------------------------------------------
(* ImageProcessor.create_combined_image                                    *)

MaxOf(S) == CHOOSE m \in S : \A x \in S : x <= m

RECURSIVE SumSeq(_)
SumSeq(q) == IF q = <<>> THEN 0 ELSE Head(q) + SumSeq(Tail(q))

\* CellIndex filling the grid column by column
CellIndexColumnMajor(r, c, cols) == c * cols + r

\* idx = r * cols + c, for the 0-based row r and column c of the two loops
CellIndex(r, c, cols) == r * cols + c

\* the cells in the order "for r in range(rows): for c in range(cols)"
CellsInLoopOrder(rows, cols) ==
    [k \in 1..(rows * cols) |-> [r |-> (k - 1) \div cols, c |-> (k - 1) % cols]]

\* "if idx < len(self.images)": the cell holds an image (images[idx], 0-based)
Occupied(imgs, r, c, cols) == CellIndex(r, c, cols) < Len(imgs)
ImageAt(imgs, r, c, cols) == imgs[CellIndex(r, c, cols) + 1]

\* row_heights[r]: max_height starts at 0 and takes each image of row r
row_heights(imgs, rows, cols) ==
    [r \in 1..rows |->
        MaxOf({0} \cup { ImageAt(imgs, r - 1, c, cols).height :
                         c \in {x \in 0..(cols - 1) : Occupied(imgs, r - 1, x, cols)} })]

\* col_widths taking the heights of the column's images
col_widths_of_heights(imgs, rows, cols) ==
    [c \in 1..cols |->
        MaxOf({0} \cup { ImageAt(imgs, r, c - 1, cols).height :
                         r \in {x \in 0..(rows - 1) : Occupied(imgs, x, c - 1, cols)} })]

\* col_widths[c]: max_width starts at 0 and takes each image of column c
col_widths(imgs, rows, cols) ==
    [c \in 1..cols |->
        MaxOf({0} \cup { ImageAt(imgs, r, c - 1, cols).width :
                         r \in {x \in 0..(rows - 1) : Occupied(imgs, x, c - 1, cols)} })]

\* TotalSize with one spacing per cell instead of one per gap
TotalSizeSpacingPerCell(sizes, spacing, margin) ==
    SumSeq(sizes) + Len(sizes) * spacing + 2 * margin

\* total = sum(sizes) + (n - 1) * spacing + 2 * margin, for either axis
TotalSize(sizes, spacing, margin) ==
    SumSeq(sizes) + (Len(sizes) - 1) * spacing + 2 * margin

max_canvas_size == 16384

\* CanvasSize scaling each axis by its own factor max_canvas_size / total
CanvasSizeOwnFactor(total_width, total_height) ==
    IF total_width > max_canvas_size \/ total_height > max_canvas_size
    THEN <<IntMulQuot(total_width, max_canvas_size, total_width),
           IntMulQuot(total_height, max_canvas_size, total_height)>>
    ELSE <<total_width, total_height>>

\* the canvas size: the totals, or both scaled by max_canvas_size / max(...)
\* when either exceeds max_canvas_size
CanvasSize(total_width, total_height) ==
    IF total_width > max_canvas_size \/ total_height > max_canvas_size
    THEN LET m == Max(total_width, total_height)
         IN  <<IntMulQuot(total_width, max_canvas_size, m),
               IntMulQuot(total_height, max_canvas_size, m)>>
    ELSE <<total_width, total_height>>

\* Image.new('RGBA', ...) for a transparent background, 'RGB' otherwise
CanvasMode(bg_color) == IF bg_color = "transparent" THEN "RGBA" ELSE "RGB"

\* an offset that grows by the sizes alone, without the spacing
OffsetAtNoSpacing(k, sizes, spacing, margin) == margin + SumSeq(SubSeq(sizes, 1, k))

RECURSIVE OffsetAt(_, _, _, _)
\* x_offset (y_offset) when the loop reaches the 0-based column (row) k: it
\* starts at margin and grows by sizes[k] + spacing after each column (row)
OffsetAt(k, sizes, spacing, margin) ==
    IF k = 0 THEN margin
    ELSE OffsetAt(k - 1, sizes, spacing, margin) + sizes[k] + spacing

\* AlignX whose right alignment forgets the image's own width
AlignXRightEdge(align, x_offset, col_width, img_width) ==
    IF align = "center" THEN x_offset + (col_width - img_width) \div 2
    ELSE IF align = "left" THEN x_offset
    ELSE x_offset + col_width

\* x of the paste inside the cell that starts at x_offset
AlignX(align, x_offset, col_width, img_width) ==
    IF align = "center" THEN x_offset + (col_width - img_width) \div 2
    ELSE IF align = "left" THEN x_offset
    ELSE x_offset + col_width - img_width

\* AlignY putting every image at the top of its row
AlignYTop(align, y_offset, row_height, img_height) == y_offset

\* y of the paste: the same expression in all three branches
AlignY(align, y_offset, row_height, img_height) ==
    y_offset + (row_height - img_height) \div 2

\* the paste of the image of cell (r, c): its position and its size
PlaceCell(imgs, cell, cols, rh, cw, h_spacing, v_spacing, margin, align) ==
    LET img      == ImageAt(imgs, cell.r, cell.c, cols)
        x_offset == OffsetAt(cell.c, cw, h_spacing, margin)
        y_offset == OffsetAt(cell.r, rh, v_spacing, margin)
    IN  [idx |-> CellIndex(cell.r, cell.c, cols), r |-> cell.r, c |-> cell.c,
         x |-> AlignX(align, x_offset, cw[cell.c + 1], img.width),
         y |-> AlignY(align, y_offset, rh[cell.r + 1], img.height),
         width |-> img.width, height |-> img.height]

\* the occupied cells, in loop order
OccupiedCells(imgs, rows, cols) ==
    SelectSeq(CellsInLoopOrder(rows, cols),
              LAMBDA cell : Occupied(imgs, cell.r, cell.c, cols))

\* ImagesAfterPaste taking each pasted image off the list
ImagesAfterPasteConsumed(imgs, cells) == SubSeq(imgs, Len(cells) + 1, Len(imgs))

\* self.images after the paste loop: the loop reads len(self.images) and
\* self.images[idx], and paste copies the pixels of img into the canvas
ImagesAfterPaste(imgs, cells) == imgs

\* what create_combined_image returns, what it pasted where, and the list
\* self.images it leaves
create_combined_image(imgs, rows, cols, h_spacing, v_spacing, bg_color, margin, align) ==
    IF imgs = <<>> THEN [canvas |-> None, pastes |-> <<>>, images |-> imgs]
    \* Image.new raises MemoryError: except, print, return None
    ELSE IF platform.canvas_memory = "exhausted"
    THEN [canvas |-> None, pastes |-> <<>>, images |-> imgs]
    ELSE
    LET rh           == row_heights(imgs, rows, cols)
        cw           == col_widths(imgs, rows, cols)
        total_width  == TotalSize(cw, h_spacing, margin)
        total_height == TotalSize(rh, v_spacing, margin)
        size         == CanvasSize(total_width, total_height)
        cells        == OccupiedCells(imgs, rows, cols)
    IN  [canvas |-> [width |-> size[1], height |-> size[2], mode |-> CanvasMode(bg_color)],
         row_heights |-> rh, col_widths |-> cw,
         total_width |-> total_width, total_height |-> total_height,
         images |-> ImagesAfterPaste(imgs, cells),
         pastes |-> [k \in 1..Len(cells) |->
                        PlaceCell(imgs, cells[k], cols, rh, cw,
                                  h_spacing, v_spacing, margin, align)]]

----------------------------------------------------------------------------
(* ImageProcessor.add_labels                                               *)

\* ImageFont.truetype(name, size) loads the font, or raises, as the platform
\* has it installed or not; installed is the set of names that load
FontPaths ==
    <<"arial.ttf", "ARIAL.TTF", "C:/Windows/Fonts/arial.ttf",
      "/usr/share/fonts/truetype/msttcorefonts/Arial.ttf">>

\* the first of font_paths that loads, or the default font (for ... else)
FirstArial(installed) ==
    LET found == SelectSeq(FontPaths, LAMBDA path : path \in installed)
    IN  IF found = <<>> THEN "default" ELSE Head(found)

\* ResolveFont where a recognised family whose alias does not load ends
\* without a font
ResolveFontAliasFatal(font_name, installed) ==
    LET alias(file) == IF file \in installed THEN file ELSE "unresolved"
    IN  IF font_name \in installed THEN font_name
        ELSE IF font_name = "SimSun" THEN alias("simsun.ttc")
        ELSE IF font_name = "SimHei" THEN alias("simhei.ttf")
        ELSE IF font_name = "Times New Roman" THEN alias("times.ttf")
        ELSE FirstArial(installed)

\* the font add_labels ends with: the requested name, the alias of a
\* recognised family, one of the Arial paths, or ImageFont.load_default();
\* "SimSun" and "SimHei" stand for the two Chinese family names of the source
ResolveFont(font_name, installed) ==
    LET alias(file) == IF file \in installed THEN file ELSE "default"
    IN  IF font_name \in installed THEN font_name
        ELSE IF font_name = "SimSun" THEN alias("simsun.ttc")
        ELSE IF font_name = "SimHei" THEN alias("simhei.ttf")
        ELSE IF font_name = "Times New Roman" THEN alias("times.ttf")
        ELSE FirstArial(installed)

\* chr(97 + label_idx) between the format's fixed characters; a text is the
\* sequence of its code points ('(' 40, ')' 41, '/' 47, 'F' 70, 'i' 105,
\* 'g' 103, '1' 49)
LabelText(label_format, label_idx) ==
    IF label_format = "(a)" THEN <<40, 97 + label_idx, 41>>
    ELSE IF label_format = "a/" THEN <<97 + label_idx, 47>>
    ELSE <<70, 105, 103, 49, 97 + label_idx>>

\* draw.textbbox((0, 0), text, font): (left, top, right, bottom) of the text.
\* The built-in bitmap font has fixed cells; a TrueType font scales with
\* font_size and starts below the origin by its internal leading.
TextBBox(text, font, font_size) ==
    IF font = "default" THEN <<0, 0, 6 * Len(text), 11>>
    ELSE <<0, font_size \div 4, (font_size \div 2) * Len(text), font_size>>

\* lines 354-372 repeat the row and column maxima of create_combined_image
label_row_heights(imgs, rows, cols) ==
    [r \in 1..rows |->
        MaxOf({0} \cup { ImageAt(imgs, r - 1, c, cols).height :
                         c \in {x \in 0..(cols - 1) : Occupied(imgs, r - 1, x, cols)} })]

label_col_widths(imgs, rows, cols) ==
    [c \in 1..cols |->
        MaxOf({0} \cup { ImageAt(imgs, r, c - 1, cols).width :
                         r \in {x \in 0..(rows - 1) : Occupied(imgs, x, c - 1, cols)} })]

\* img_x taken at the left edge of the column whatever the alignment
LabelImgXLeft(align, x_offset, col_width, img_width) == x_offset

\* img_x of the label loop
LabelImgX(align, x_offset, col_width, img_width) ==
    IF align = "center" THEN x_offset + (col_width - img_width) \div 2
    ELSE IF align = "left" THEN x_offset
    ELSE x_offset + col_width - img_width

\* img_y of the label loop
LabelImgY(align, y_offset, row_height, img_height) ==
    y_offset + (row_height - img_height) \div 2

\* LabelAnchor whose bottom anchors subtract the text's width, not its height
LabelAnchorWidthForHeight(label_position, img_x, img_y, img, bbox, label_margin) ==
    LET text_width  == bbox[3] - bbox[1]
    IN  IF label_position = "top_left"
        THEN <<img_x + label_margin, img_y + label_margin>>
        ELSE IF label_position = "top_right"
        THEN <<img_x + img.width - text_width - label_margin, img_y + label_margin>>
        ELSE IF label_position = "bottom_left"
        THEN <<img_x + label_margin, img_y + img.height - text_width - label_margin>>
        ELSE <<img_x + img.width - text_width - label_margin,
               img_y + img.height - text_width - label_margin>>

\* (text_x, text_y) for the anchor label_position; bbox is measured only by
\* the three anchors that need it
LabelAnchor(label_position, img_x, img_y, img, bbox, label_margin) ==
    LET text_width  == bbox[3] - bbox[1]
        text_height == bbox[4] - bbox[2]
    IN  IF label_position = "top_left"
        THEN <<img_x + label_margin, img_y + label_margin>>
        ELSE IF label_position = "top_right"
        THEN <<img_x + img.width - text_width - label_margin, img_y + label_margin>>
        ELSE IF label_position = "bottom_left"
        THEN <<img_x + label_margin, img_y + img.height - text_height - label_margin>>
        ELSE <<img_x + img.width - text_width - label_margin,
               img_y + img.height - text_height - label_margin>>

\* one draw.text call: the label of the image of cell (r, c)
LabelCell(imgs, cell, cols, rh, cw, label_format, label_position, font, font_size, label_margin, h_spacing, v_spacing, margin, align) ==
    LET idx        == CellIndex(cell.r, cell.c, cols)
        label_text == LabelText(label_format, idx)
        img        == ImageAt(imgs, cell.r, cell.c, cols)
        img_x      == LabelImgX(align, OffsetAt(cell.c, cw, h_spacing, margin),
                                cw[cell.c + 1], img.width)
        img_y      == LabelImgY(align, OffsetAt(cell.r, rh, v_spacing, margin),
                                rh[cell.r + 1], img.height)
        at         == LabelAnchor(label_position, img_x, img_y, img,
                                  TextBBox(label_text, font, font_size), label_margin)
    IN  [idx |-> idx, r |-> cell.r, c |-> cell.c, text |-> label_text,
         img_x |-> img_x, img_y |-> img_y, width |-> img.width, height |-> img.height,
         text_x |-> at[1], text_y |-> at[2]]

\* what add_labels returns and what it drew where.  combined = None makes
\* combined.mode raise; the except clause returns combined as it is.
add_labels(composed, imgs, rows, cols, label_format, label_position, font_name, font_size, label_margin, h_spacing, v_spacing, margin, align, installed) ==
    IF composed = None THEN [canvas |-> None, font |-> "unresolved", labels |-> <<>>]
    ELSE
    LET font  == ResolveFont(font_name, installed)
        rh    == label_row_heights(imgs, rows, cols)
        cw    == label_col_widths(imgs, rows, cols)
        cells == OccupiedCells(imgs, rows, cols)
    IN  [canvas |-> [composed EXCEPT !.mode = "RGBA"],
         font   |-> font,
         labels |-> [k \in 1..Len(cells) |->
                        LabelCell(imgs, cells[k], cols, rh, cw, label_format,
                                  label_position, font, font_size, label_margin,
                                  h_spacing, v_spacing, margin, align)]]

----------------------------------------------------------------------------
(* ImageProcessor.save_image                                               *)

\* an output path: its directory ("" when the path has none) and file name
Path(dir, name) == [dir |-> dir, name |-> name]

\* os.path.dirname(output_path) if os.path.dirname(output_path) else '.'
OutputDir(output_path) == IF output_path.dir = "" THEN "." ELSE output_path.dir

\* save_image that writes without creating the directory
save_image_without_makedirs(disk, img, output_path, dpi, format) ==
    IF OutputDir(output_path) \notin disk.dirs \/ img = None
       \/ OutputDir(output_path) \in disk.no_write
    THEN [success |-> FALSE, fs |-> disk]
    ELSE [success |-> TRUE, fs |-> [disk EXCEPT !.files = @ \cup {output_path}]]

\* save_image(img, output_path, dpi, format) on the file system disk: the
\* (success, message) it returns and the file system it leaves.  The whole
\* body is inside try; any exception becomes (False, message).  os.makedirs
\* (exist_ok=True) raises for a directory it cannot create; img=None raises
\* AttributeError at img.width or img.save, after the directory was made;
\* the PDF/EPS branch (matplotlib savefig) and the TIFF/PNG branch (img.save)
\* write the one file output_path or raise.
save_image(disk, img, output_path, dpi, format) ==
    LET dir == OutputDir(output_path)
    IN  IF dir \notin disk.dirs /\ dir \in disk.no_mkdir
        THEN [success |-> FALSE, fs |-> disk]
        ELSE LET made == [disk EXCEPT !.dirs = @ \cup {dir}]
             IN  IF img = None \/ dir \in disk.no_write
                 THEN [success |-> FALSE, fs |-> made]
                 ELSE [success |-> TRUE,
                       fs |-> [made EXCEPT !.files = @ \cup {output_path}]]

----------------------------------------------------------------------------
(* ImageProcessor.load_images                                              *)

\* a processor: its two lists
Processor(imgs, paths) == [images |-> imgs, image_paths |-> paths]

\* a turn of the loop that does not look the path up in image_paths
LoadOneUnchecked(loaded, path, sources) ==
    IF sources[path].status # "ok"
    THEN [loaded EXCEPT !.errors = Append(@, path)]
    ELSE [loaded EXCEPT !.images = Append(@, Thumbnail(sources[path].img)),
                        !.image_paths = Append(@, path),
                        !.added_count = @ + 1]

\* one turn of "for path in paths": a path already in image_paths is
\* skipped; a file that does not exist, or that Image.open / _load_eps
\* cannot decode, adds a message to errors and the loop continues; a decoded
\* picture is appended as its thumbnail, with its path.  loaded carries the
\* processor, the paths that gave an error, and the two counters.
LoadOne(loaded, path, sources) ==
    IF \E i \in 1..Len(loaded.image_paths) : loaded.image_paths[i] = path
    THEN [loaded EXCEPT !.skipped_count = @ + 1]
    ELSE IF sources[path].status # "ok"
    THEN [loaded EXCEPT !.errors = Append(@, path)]
    ELSE [loaded EXCEPT !.images = Append(@, Thumbnail(sources[path].img)),
                        !.image_paths = Append(@, path),
                        !.added_count = @ + 1]

RECURSIVE LoadAll(_, _, _)
LoadAll(loaded, paths, sources) ==
    IF paths = <<>> THEN loaded
    ELSE LoadAll(LoadOne(loaded, Head(paths), sources), Tail(paths), sources)

\* load_images(paths) on the processor proc, sources being the files the
\* paths name: the processor it leaves and the (success, message) it
\* returns; success is False as soon as one path gave an error
load_images(proc, paths, sources) ==
    LET loaded == LoadAll([images |-> proc.images, image_paths |-> proc.image_paths,
                           errors |-> <<>>, added_count |-> 0, skipped_count |-> 0],
                          paths, sources)
    IN  [images |-> loaded.images, image_paths |-> loaded.image_paths,
         success |-> loaded.errors = <<>>, errors |-> loaded.errors,
         added_count |-> loaded.added_count, skipped_count |-> loaded.skipped_count]

----------------------------------------------------------------------------
(* ImageProcessor.reorder_images, clear and clear_images                   *)

\* seq[i] of Python for a list of n elements: the index counts from 0, and a
\* negative one counts from the end
PyIndex(seq, i) == seq[IF i < 0 THEN Len(seq) + i + 1 ELSE i + 1]

\* [seq[i] for i in new_order]
Reordered(seq, new_order) == [k \in 1..Len(new_order) |-> PyIndex(seq, new_order[k])]

\* a reorder that rebuilds images and leaves image_paths as it was
reorder_images_keeps_paths(proc, new_order) ==
    IF Len(new_order) # Len(proc.images)
    THEN [images |-> proc.images, image_paths |-> proc.image_paths, raised |-> FALSE]
    ELSE IF \E k \in 1..Len(new_order) :
               new_order[k] \notin (0 - Len(proc.images))..(Len(proc.images) - 1)
    THEN [images |-> proc.images, image_paths |-> proc.image_paths, raised |-> TRUE]
    ELSE [images |-> Reordered(proc.images, new_order),
          image_paths |-> proc.image_paths, raised |-> FALSE]

\* reorder_images(new_order): nothing happens unless new_order is as long as
\* images; an index out of range raises IndexError in the first list
\* comprehension, before either attribute is assigned; otherwise both lists
\* are rebuilt in the new order
reorder_images(proc, new_order) ==
    IF Len(new_order) # Len(proc.images)
    THEN [images |-> proc.images, image_paths |-> proc.image_paths, raised |-> FALSE]
    ELSE IF \E k \in 1..Len(new_order) :
               new_order[k] \notin (0 - Len(proc.images))..(Len(proc.images) - 1)
    THEN [images |-> proc.images, image_paths |-> proc.image_paths, raised |-> TRUE]
    ELSE [images |-> Reordered(proc.images, new_order),
          image_paths |-> Reordered(proc.image_paths, new_order), raised |-> FALSE]

\* clear(): images.clear() and image_paths.clear()
clear(proc) == [images |-> <<>>, image_paths |-> <<>>]

\* clear_images(): self.clear()
clear_images(proc) == clear(proc)

----------------------------------------------------------------------------
(* ConfigManager.get_spacing_in_pixels                                     *)

\* int(spacing * 37.8) for 'cm', int(spacing) otherwise; 37.8 is the float
\* nearest to 378 / 10
get_spacing_in_pixels(spacing, unit) ==
    IF unit = "cm" THEN IntMulQuot(spacing, 378, 10) ELSE spacing

----------------------------------------------------------------------------
(* ConfigManager: the configuration and its JSON file                      *)

\* Python values of a configuration: int, str, tuple, list, dict; None is
\* the None of the module
PyInt(n) == [int |-> n]
PyStr(t) == [str |-> t]
PyTuple(items) == [tuple |-> items]
PyList(items) == [list |-> items]
PyDict(members) == [dict |-> members]

\* JSON values
JsonNull == [null |-> TRUE]
JsonNumber(n) == [number |-> n]
JsonString(t) == [string |-> t]
JsonArray(items) == [array |-> items]
JsonObject(members) == [object |-> members]

RECURSIVE JsonOf(_)
\* json.dump: None becomes null, an int a number, a str a string, a tuple
\* and a list both an array, a dict an object
JsonOf(v) ==
    IF v = None THEN JsonNull
    ELSE IF "int" \in DOMAIN v THEN JsonNumber(v.int)
    ELSE IF "str" \in DOMAIN v THEN JsonString(v.str)
    ELSE IF "tuple" \in DOMAIN v
    THEN JsonArray([i \in 1..Len(v.tuple) |-> JsonOf(v.tuple[i])])
    ELSE IF "list" \in DOMAIN v
    THEN JsonArray([i \in 1..Len(v.list) |-> JsonOf(v.list[i])])
    ELSE JsonObject([k \in DOMAIN v.dict |-> JsonOf(v.dict[k])])

RECURSIVE PyOf(_)
\* json.load: null becomes None, a number an int, a string a str, an array
\* a list, an object a dict
PyOf(j) ==
    IF "null" \in DOMAIN j THEN None
    ELSE IF "number" \in DOMAIN j THEN PyInt(j.number)
    ELSE IF "string" \in DOMAIN j THEN PyStr(j.string)
    ELSE IF "array" \in DOMAIN j
    THEN PyList([i \in 1..Len(j.array) |-> PyOf(j.array[i])])
    ELSE PyDict([k \in DOMAIN j.object |-> PyOf(j.object[k])])

\* _get_default_config()
DefaultConfig ==
    [rows |-> PyInt(2), cols |-> PyInt(2), resize_mode |-> PyStr("longest_edge"),
     image_size |-> PyInt(800), aspect_ratio |-> None, h_spacing |-> PyInt(20),
     v_spacing |-> PyInt(20), spacing_unit |-> PyStr("px"),
     label_format |-> PyStr("(a)"), label_position |-> PyStr("top_left"),
     label_font |-> PyStr("Arial"), label_font_size |-> PyInt(12),
     label_color |-> PyStr("black"), label_margin |-> PyInt(10),
     bg_color |-> PyStr("white"), canvas_margin |-> PyInt(10),
     align |-> PyStr("center"), output_format |-> PyStr("PNG"), dpi |-> PyInt(300),
     output_path |-> PyStr("")]

\* update_config(**kwargs): "if key in self.config: self.config[key] = value"
update_config(config, kwargs) ==
    [key \in DOMAIN config |->
        IF key \in DOMAIN kwargs THEN kwargs[key] ELSE config[key]]

\* a configuration file: absent, bytes that are no JSON document, or a JSON
\* document; saved is the configuration save_config wrote it from, None for
\* a file of another origin
NoFile == [missing |-> TRUE]
NotJson == [text |-> "{rows: 3", saved |-> None]
JsonFile(document, saved) == [json |-> document, saved |-> saved]

\* save_config(file_path): makedirs of the directory, then json.dump of the
\* configuration; a directory that cannot be written makes open() raise,
\* and the except clause returns (False, ...)
save_config(config, disk, writable) ==
    IF ~writable THEN [success |-> FALSE, file |-> disk]
    ELSE [success |-> TRUE, file |-> JsonFile(JsonOf(PyDict(config)), config)]

\* a load that takes every key of the file
load_config_every_key(config, file) ==
    IF file = NoFile THEN [success |-> FALSE, reason |-> "missing", config |-> config]
    ELSE IF "text" \in DOMAIN file
    THEN [success |-> FALSE, reason |-> "invalid_json", config |-> config]
    ELSE \* every key of the document, known to the configuration or not
    LET loaded_config == PyOf(file.json)
    IN  IF "dict" \notin DOMAIN loaded_config
        THEN [success |-> FALSE, reason |-> "not_an_object", config |-> config]
        ELSE [success |-> TRUE, reason |-> "loaded",
              config |-> [key \in DOMAIN config \cup DOMAIN loaded_config.dict |->
                            IF key \in DOMAIN loaded_config.dict
                            THEN loaded_config.dict[key] ELSE config[key]]]

\* load_config(file_path): a missing file returns (False, ...); json.load
\* raises for bytes that are no JSON, and loaded_config.items() raises
\* AttributeError for a document that is no object, both before the first
\* assignment and both caught by the except clause; otherwise the keys the
\* configuration has take the loaded values
load_config(config, file) ==
    IF file = NoFile THEN [success |-> FALSE, reason |-> "missing", config |-> config]
    ELSE IF "text" \in DOMAIN file
    THEN [success |-> FALSE, reason |-> "invalid_json", config |-> config]
    ELSE
    LET loaded_config == PyOf(file.json)
    IN  IF "dict" \notin DOMAIN loaded_config
        THEN [success |-> FALSE, reason |-> "not_an_object", config |-> config]
        ELSE [success |-> TRUE, reason |-> "loaded",
              config |-> [key \in DOMAIN config |->
                            IF key \in DOMAIN loaded_config.dict
                            THEN loaded_config.dict[key] ELSE config[key]]]

----------------------------------------------------------------------------
(* PhotoDealToolGUI.update_preview and output_image                        *)

\* the two statements every handler runs on the substituted list:
\* create_combined_image, then add_labels on what it returned
Render(resized_images, ui) ==
    LET h_spacing == get_spacing_in_pixels(ui.h_spacing, ui.spacing_unit)
        v_spacing == get_spacing_in_pixels(ui.v_spacing, ui.spacing_unit)
        composed  == create_combined_image(resized_images, ui.rows, ui.cols, h_spacing,
                                           v_spacing, ui.bg_color, ui.margin, ui.align)
    IN  add_labels(composed.canvas, resized_images, ui.rows, ui.cols, ui.label_format,
                   ui.label_position, ui.font_name, ui.font_size, ui.label_margin,
                   h_spacing, v_spacing, ui.margin, ui.align, ui.installed)

\* ImagesAtExit restoring the list as the handler's last statement
ImagesAtExitRestoreLast(original_images, resized_images, later_raised) ==
    IF later_raised THEN resized_images ELSE original_images

\* ImageProcessor.images when the handler returns.  Between the substitution
\* "images = resized_images" and "images = original_images" run the spacing
\* conversion, dictionary lookups of keys that exist, create_combined_image
\* and add_labels, which catch every exception themselves; the statements
\* that can raise (display, save) come after the restore.
ImagesAtExit(original_images, resized_images, later_raised) == original_images

\* update_preview(): the processor's list, the preview and the outcome it
\* leaves.  combined = None raises AttributeError at combined.width, after
\* current_preview was assigned; the handler's except shows a message.
update_preview(imgs, ui, current_preview) ==
    IF imgs = <<>>
    THEN [images |-> imgs, current_preview |-> current_preview,
          outcome |-> "no_images", substituted |-> <<>>]
    ELSE
    LET resized_images == [i \in 1..Len(imgs) |->
                              resize_image(imgs[i], ui.resize_mode, ui.size,
                                           ui.aspect_ratio, TRUE)]
        drawn          == Render(resized_images, ui)
        raised         == drawn.canvas = None
    IN  [images |-> ImagesAtExit(imgs, resized_images, raised),
         current_preview |-> drawn.canvas,
         outcome |-> IF raised THEN "error" ELSE "shown",
         substituted |-> resized_images]

\* QFileDialog.getSaveFileName returned '' (the dialog was cancelled)
NoPath == Path("", "")

\* output_image(): "if not self.current_preview" warns and returns; a
\* cancelled dialog does nothing; Image.open raises for a source that is no
\* longer readable, before the substitution; then the originals are resized
\* with the export filter, rendered, the list is restored and the result is
\* saved.
output_image(imgs, paths, disk, ui, current_preview, file_path) ==
    LET same == [images |-> imgs, fs |-> disk, substituted |-> <<>>]
    IN  IF current_preview = None THEN same @@ [outcome |-> "no_preview"]
        ELSE IF file_path = NoPath THEN same @@ [outcome |-> "cancelled"]
        ELSE IF \E i \in 1..Len(paths) : disk.sources[paths[i]].status # "ok"
        THEN same @@ [outcome |-> "error"]
        ELSE
        LET resized_images == [i \in 1..Len(paths) |->
                                  resize_image(disk.sources[paths[i]].img, ui.resize_mode,
                                               ui.size, ui.aspect_ratio, FALSE)]
            drawn          == Render(resized_images, ui)
            saved          == save_image(disk, drawn.canvas, file_path, ui.dpi,
                                         ui.output_format)
        IN  [images |-> ImagesAtExit(imgs, resized_images, FALSE),
             fs |-> saved.fs,
             substituted |-> resized_images,
             outcome |-> IF saved.success THEN "saved" ELSE "failed"]

----------------------------------------------------------------------------
(* BatchProcessor.process_folder and run                                   *)

ImageExtensions == {".png", ".jpg", ".jpeg", ".tiff", ".tif", ".eps"}

\* the fonts ImageFont.truetype finds on the machine that runs the batch
InstalledFonts == {"arial.ttf"}

\* output_format.lower()
Lower(format) ==
    CASE format = "PNG" -> "png" [] format = "TIFF" -> "tiff"
      [] format = "PDF" -> "pdf" [] format = "EPS" -> "eps" [] OTHER -> format

\* f"{folder_name}_combined.{output_format}"
OutputFilename(folder_name, output_format) == <<folder_name, "_combined.", output_format>>

\* what process_folder reports: (success, message), with what it loaded and
\* the file system it leaves
FolderResult(success, reason, loaded, failed, disk) ==
    [success |-> success, reason |-> reason, loaded |-> loaded, failed |-> failed,
     fs |-> disk]

\* process_folder(folder, folder_name): os.listdir raises for a folder that
\* cannot be listed (except: return False); no image file: return False;
\* load_images on a new ImageProcessor, "if not success: return False";
\* then every loaded image is resized, the list replaced, the grid composed,
\* labelled and saved as output_dir/<folder_name>_combined.<format>.
process_folder(folder, folder_name, config, output_dir, disk) ==
    IF ~folder.listable THEN FolderResult(FALSE, "exception", 0, 0, disk)
    ELSE
    LET image_files == SelectSeq([i \in 1..Len(folder.files) |-> i],
                                 LAMBDA i : folder.files[i].ext \in ImageExtensions)
    IN  IF image_files = <<>> THEN FolderResult(FALSE, "no_images", 0, 0, disk)
        ELSE
        LET processor == load_images(Processor(<<>>, <<>>), image_files, folder.files)
        IN  IF ~processor.success
            THEN FolderResult(FALSE, "load", Len(processor.images),
                              Len(processor.errors), disk)
            ELSE
            LET resized_images ==
                    [i \in 1..Len(processor.images) |->
                        resize_image(processor.images[i], config.resize_mode,
                                     config.image_size, config.aspect_ratio, FALSE)]
                h_spacing == get_spacing_in_pixels(config.h_spacing, config.spacing_unit)
                v_spacing == get_spacing_in_pixels(config.v_spacing, config.spacing_unit)
                composed  == create_combined_image(resized_images, config.rows, config.cols,
                                 h_spacing, v_spacing, config.bg_color,
                                 config.canvas_margin, config.align)
                drawn     == add_labels(composed.canvas, resized_images, config.rows,
                                 config.cols, config.label_format, config.label_position,
                                 config.label_font, config.label_font_size,
                                 config.label_margin, h_spacing, v_spacing,
                                 config.canvas_margin, config.align, InstalledFonts)
                output_path == Path(output_dir,
                                    OutputFilename(folder_name, Lower(config.output_format)))
                saved     == save_image(disk, drawn.canvas, output_path, config.dpi,
                                        config.output_format)
            IN  FolderResult(saved.success, IF saved.success THEN "saved" ELSE "save",
                             Len(processor.images), 0, saved.fs)

----------------------------------------------------------------------------
(* Inputs of the layout specifications                                     *)

Aligns == {"center", "left", "right"}
BgColors == {"white", "transparent"}
LabelFormats == {"(a)", "a/", "Fig1a"}
LabelPositions == {"top_left", "top_right", "bottom_left", "bottom_right"}

\* Spec: every list of at most MaxImages images of LayoutImages, and grids of
\* at most MaxRows x MaxCols cells
MaxImages == 3
MaxRows == 2
MaxCols == 2
HSpacings == {0, 20}
VSpacings == {0, 15}
Margins == {0, 10}

\* a small landscape image, a small portrait one, and a strip wide enough to
\* carry the totals over max_canvas_size
LayoutImages == {Image(400, 266), Image(171, 300), Image(16661, 9)}

RECURSIVE ListsUpTo(_, _)
ListsUpTo(S, n) ==
    IF n = 0 THEN {<<>>}
    ELSE LET shorter == ListsUpTo(S, n - 1)
         IN  shorter \cup {Append(q, x) : q \in {l \in shorter : Len(l) = n - 1}, x \in S}

\* the call create_combined_image(rows, cols, ...) on the loaded images
Compose(rows, cols, h_spacing, v_spacing, bg_color, margin, align) ==
    /\ combined = NoCall
    /\ \E result \in {create_combined_image(images, rows, cols, h_spacing, v_spacing,
                                             bg_color, margin, align)} :
          /\ combined' =
                [called |-> TRUE,
                 args |-> [rows |-> rows, cols |-> cols, h_spacing |-> h_spacing,
                           v_spacing |-> v_spacing, bg_color |-> bg_color,
                           margin |-> margin, align |-> align],
                 images_before |-> images, paths_before |-> image_paths,
                 result |-> result]
          /\ images' = result.images
    /\ UNCHANGED <<call, labelled>>
    /\ UNCHANGED session

CreateCombinedImage ==
    \E rows \in 1..MaxRows, cols \in 1..MaxCols, h_spacing \in HSpacings,
       v_spacing \in VSpacings, bg_color \in BgColors, margin \in Margins,
       align \in Aligns :
        Compose(rows, cols, h_spacing, v_spacing, bg_color, margin, align)

Init ==
    /\ images \in ListsUpTo(LayoutImages, MaxImages)
    /\ call = IdleCall
    /\ combined = NoCall
    /\ labelled = NoCall
    /\ EngineOnly

Next == CreateCombinedImage

Spec == Init /\ [][Next]_vars

\* the same call on a machine that can or cannot allocate the canvas
InitCompose ==
    /\ images \in ListsUpTo(LayoutImages, MaxImages)
    /\ call = IdleCall
    /\ combined = NoCall
    /\ labelled = NoCall
    /\ image_paths = PathsOf(images)
    /\ platform \in [empty_resize : {"returns"}, canvas_memory : {"enough", "exhausted"}]
    /\ fs = EmptyFS
    /\ gui = IdleGui
    /\ batch = NoBatch

NextCompose == CreateCombinedImage

SpecCompose == InitCompose /\ [][NextCompose]_vars

\* SpecLabels: the first n images of a repeating pattern, n up to
\* MaxLabelImages, on grids wide enough to hold them all, composed with the
\* default spacings and margin and then labelled
MaxLabelImages == 27
MaxLabelRows == 3
LabelCols == {1, 2, 9}
LabelMargins == {0, 10}
DefaultSpacing == 20
DefaultMargin == 10
DefaultFontSize == 12
FontCases ==
    { <<"Arial", {}>>, <<"Arial", {"ARIAL.TTF"}>>, <<"SimSun", {"simsun.ttc", "arial.ttf"}>>,
      <<"SimHei", {"arial.ttf"}>>, <<"Times New Roman", {"times.ttf"}>> }

PatternImages ==
    <<Image(400, 266), Image(400, 300), Image(300, 400), Image(171, 400), Image(120, 90)>>

PatternList(n) == [i \in 1..n |-> PatternImages[((i - 1) % Len(PatternImages)) + 1]]

ComposeForLabels ==
    \E rows \in 1..MaxLabelRows, cols \in LabelCols, align \in Aligns :
        Compose(rows, cols, DefaultSpacing, DefaultSpacing, "white", DefaultMargin, align)

\* the call add_labels(combined, rows, cols, ...) that follows the composition,
\* with the layout arguments the composition was given
AddLabels ==
    /\ combined.called
    /\ labelled = NoCall
    /\ \E label_format \in LabelFormats, label_position \in LabelPositions,
          label_margin \in LabelMargins, fc \in FontCases :
          labelled' =
             [called |-> TRUE,
              args |-> [label_format |-> label_format, label_position |-> label_position,
                        font_name |-> fc[1], font_size |-> DefaultFontSize,
                        label_margin |-> label_margin, installed |-> fc[2]],
              result |-> add_labels(combined.result.canvas, images, combined.args.rows,
                                    combined.args.cols, label_format, label_position,
                                    fc[1], DefaultFontSize, label_margin,
                                    combined.args.h_spacing, combined.args.v_spacing,
                                    combined.args.margin, combined.args.align, fc[2])]
    /\ UNCHANGED <<images, call, combined>>
    /\ UNCHANGED session

InitLabels ==
    /\ images \in {PatternList(n) : n \in 0..MaxLabelImages}
    /\ call = IdleCall
    /\ combined = NoCall
    /\ labelled = NoCall
    /\ EngineOnly

NextLabels == ComposeForLabels \/ AddLabels

SpecLabels == InitLabels /\ [][NextLabels]_vars

----------------------------------------------------------------------------
(* Inputs of the resize specification                                      *)

\* the least target size the size control offers
MinImageSize == 100

ResizeModes == {"original", "longest_edge", "shortest_edge", "custom", "crop"}
AspectRatios == {FreeRatio, <<1, 1>>, <<4, 3>>, <<16, 9>>}
Sizes == {MinImageSize, 400, 1000}

\* sources: the four of the end-to-end scenario, a tall one, ones whose
\* longest edge meets a float that rounds below the target, thin strips
SourceImages ==
    { Image(600, 400), Image(800, 600), Image(500, 500), Image(700, 300),
      Image(300, 700), Image(97, 50), Image(50, 97), Image(1024, 2),
      Image(2, 1000), Image(400, 300), Image(1, 1) }

\* resize_image(img, mode, size, aspect_ratio, fast): the call and its result
ResizeCall ==
    /\ call.phase = "idle"
    /\ \E img \in SourceImages, mode \in ResizeModes, size \in Sizes,
          aspect_ratio \in AspectRatios, fast \in BOOLEAN :
          call' = [phase |-> "once", img |-> img, mode |-> mode, size |-> size,
                   aspect_ratio |-> aspect_ratio, fast |-> fast,
                   result |-> resize_image(img, mode, size, aspect_ratio, fast)]
    /\ UNCHANGED <<images, combined, labelled>>
    /\ UNCHANGED session

\* the same policy applied to the image the first call returned
ResizeAgain ==
    /\ call.phase = "once"
    /\ call' = [call EXCEPT !.phase = "twice",
                    !.img = call.result,
                    !.result = resize_image(call.result, call.mode, call.size,
                                            call.aspect_ratio, call.fast)]
    /\ UNCHANGED <<images, combined, labelled>>
    /\ UNCHANGED session

InitResize ==
    /\ images = <<>>
    /\ call = IdleCall
    /\ combined = NoCall
    /\ labelled = NoCall
    /\ EngineOnly

NextResize == ResizeCall \/ ResizeAgain

SpecResize == InitResize /\ [][NextResize]_vars

\* sources without pixels: no width, no height, neither
DegenerateImages == {Image(0, 300), Image(400, 0), Image(0, 0)}

\* resize_image called on a degenerate source
ResizeDegenerate ==
    /\ call.phase = "idle"
    /\ \E img \in DegenerateImages, mode \in ResizeModes, size \in Sizes,
          aspect_ratio \in AspectRatios, fast \in BOOLEAN :
          call' = [phase |-> "once", img |-> img, mode |-> mode, size |-> size,
                   aspect_ratio |-> aspect_ratio, fast |-> fast,
                   result |-> resize_image(img, mode, size, aspect_ratio, fast)]
    /\ UNCHANGED <<images, combined, labelled>>
    /\ UNCHANGED session

InitDegenerate ==
    /\ images = <<>>
    /\ call = IdleCall
    /\ combined = NoCall
    /\ labelled = NoCall
    /\ image_paths = <<>>
    /\ platform \in [empty_resize : {"returns", "raises"}, canvas_memory : {"enough"}]
    /\ fs = EmptyFS
    /\ gui = IdleGui
    /\ batch = NoBatch

NextDegenerate == ResizeDegenerate

SpecDegenerate == InitDegenerate /\ [][NextDegenerate]_vars

----------------------------------------------------------------------------
(* The pipeline on one processor: resize every image, compose, label       *)

\* the four sources of the end-to-end scenario
ScenarioSources == <<Image(600, 400), Image(800, 600), Image(500, 500), Image(700, 300)>>
ScenarioSizes == {400, 1000}

\* "for img in processor.images: resized_images.append(resize_image(...))"
\* followed by "processor.images = resized_images"
ResizeAll ==
    /\ call.phase = "idle" /\ combined = NoCall
    /\ \E mode \in {"original", "longest_edge", "shortest_edge"}, size \in ScenarioSizes :
          /\ images' = [i \in 1..Len(images) |->
                           resize_image(images[i], mode, size, FreeRatio, FALSE)]
          /\ call' = [phase |-> "all", sources |-> images, mode |-> mode, size |-> size]
    /\ UNCHANGED <<combined, labelled>>
    /\ UNCHANGED session

\* create_combined_image on a grid of up to 2 x 2 cells
ComposeScenario ==
    \E rows \in 1..2, cols \in 1..2, spacing \in {0, DefaultSpacing}, align \in Aligns :
        Compose(rows, cols, spacing, spacing, "white", DefaultMargin, align)

\* add_labels with the arguments of the composition, every format at the
\* top-left and bottom-right anchors
LabelScenario ==
    /\ combined.called
    /\ labelled = NoCall
    /\ \E label_format \in LabelFormats, label_position \in {"top_left", "bottom_right"},
          label_margin \in LabelMargins :
          labelled' =
             [called |-> TRUE,
              args |-> [label_format |-> label_format, label_position |-> label_position,
                        font_name |-> "Arial", font_size |-> DefaultFontSize,
                        label_margin |-> label_margin, installed |-> InstalledFonts],
              result |-> add_labels(combined.result.canvas, images, combined.args.rows,
                                    combined.args.cols, label_format, label_position,
                                    "Arial", DefaultFontSize, label_margin,
                                    combined.args.h_spacing, combined.args.v_spacing,
                                    combined.args.margin, combined.args.align,
                                    InstalledFonts)]
    /\ UNCHANGED <<images, call, combined>>
    /\ UNCHANGED session

\* a processor that loaded the first n sources of the scenario
InitScenario ==
    /\ images \in {SubSeq(ScenarioSources, 1, n) : n \in 0..Len(ScenarioSources)}
    /\ call = IdleCall
    /\ combined = NoCall
    /\ labelled = NoCall
    /\ EngineOnly

NextScenario == ResizeAll \/ ComposeScenario \/ LabelScenario

SpecScenario == InitScenario /\ [][NextScenario]_vars

----------------------------------------------------------------------------
(* The window: previews and exports of one session                         *)

\* a source file: whether Image.open can read it now, and its picture
File(status, img) == [status |-> status, img |-> img]

MaxGuiImages == 2
GuiPictures == {Image(600, 400), Image(2048, 1000)}
GuiFiles == {File(st, img) : st \in {"ok", "missing"}, img \in GuiPictures}
OutputPaths == {Path("out", "fig.png"), Path("", "fig.png"), NoPath}

\* the settings of the controls a handler reads
UiSettings ==
    [rows : 1..2, cols : {1}, resize_mode : {"original", "longest_edge"},
     size : {MinImageSize}, aspect_ratio : {FreeRatio, <<1, 1>>},
     h_spacing : {DefaultSpacing}, v_spacing : {DefaultSpacing}, spacing_unit : {"cm"},
     bg_color : {"white"}, margin : {DefaultMargin}, align : {"center"},
     label_format : {"(a)"}, label_position : {"top_left"}, font_name : {"Arial"},
     font_size : {DefaultFontSize}, label_margin : {DefaultMargin},
     installed : {{"arial.ttf"}}, dpi : {300}, output_format : {"PNG"}]

\* the preview button, or the timer that follows a changed control
UpdatePreview ==
    /\ \E ui \in UiSettings :
          \E r \in {update_preview(images, ui, gui.current_preview)} :
              /\ images' = r.images
              /\ gui' = [handler |-> "update_preview", outcome |-> r.outcome,
                         current_preview |-> r.current_preview,
                         images_before |-> images, substituted |-> r.substituted]
    /\ UNCHANGED <<call, combined, labelled, image_paths, platform, fs, batch>>

\* the export button
OutputImage ==
    /\ \E ui \in UiSettings, file_path \in OutputPaths :
          \E r \in {output_image(images, image_paths, fs, ui, gui.current_preview, file_path)} :
              /\ images' = r.images
              /\ fs' = r.fs
              /\ gui' = [handler |-> "output_image", outcome |-> r.outcome,
                         current_preview |-> gui.current_preview,
                         images_before |-> images, substituted |-> r.substituted,
                         file_path |-> file_path, fs_before |-> fs]
    /\ UNCHANGED <<call, combined, labelled, image_paths, platform, batch>>

\* a session whose images were loaded from its source files (each readable
\* then; some may have been removed since)
InitGui ==
    /\ \E sources \in ListsUpTo(GuiFiles, MaxGuiImages) :
          /\ images = [i \in 1..Len(sources) |-> Thumbnail(sources[i].img)]
          /\ \E no_mkdir \in SUBSET {"out"}, no_write \in SUBSET {"out"} :
                fs = [sources |-> sources, dirs |-> {"."}, files |-> {},
                      no_mkdir |-> no_mkdir, no_write |-> no_write]
    /\ image_paths = PathsOf(images)
    /\ platform \in [empty_resize : {"returns"}, canvas_memory : {"enough", "exhausted"}]
    /\ call = IdleCall
    /\ combined = NoCall
    /\ labelled = NoCall
    /\ gui = IdleGui
    /\ batch = NoBatch

NextGui == UpdatePreview \/ OutputImage

SpecGui == InitGui /\ [][NextGui]_vars

----------------------------------------------------------------------------
(* One configuration manager and its file                                  *)

\* the ratios of the aspect combo box: None, (1, 1), (4, 3), (16, 9)
ConfigRatios ==
    {None} \cup {PyTuple(<<PyInt(r[1]), PyInt(r[2])>>) : r \in {<<1, 1>>, <<4, 3>>, <<16, 9>>}}

\* keyword arguments of update_config: a layout, a ratio, an output
\* setting, and a key the configuration does not have
ConfigKwargs ==
    {[rows |-> PyInt(3), cols |-> PyInt(3)], [zoom |-> PyInt(2)],
     [output_format |-> PyStr("TIFF"), dpi |-> PyInt(600)]}
    \cup {[aspect_ratio |-> ratio] : ratio \in ConfigRatios}

\* files of another origin: none, bytes that are no JSON, documents that
\* are no object, an object with one known and one unknown key
ForeignFiles ==
    {NoFile, NotJson,
     JsonFile(JsonArray(<<JsonNumber(1), JsonNumber(2)>>), None),
     JsonFile(JsonString("rows"), None),
     JsonFile(JsonObject([label_margin |-> JsonNumber(4), zoom |-> JsonNumber(2)]), None)}

\* update_config(**kwargs)
UpdateConfig ==
    /\ \E kwargs \in ConfigKwargs :
          /\ gui' = [gui EXCEPT !.config = update_config(@, kwargs)]
          /\ call' = [phase |-> "done", op |-> "update_config", kwargs |-> kwargs,
                      before |-> gui.config]
    /\ UNCHANGED <<images, combined, labelled, image_paths, platform, fs, batch>>

\* save_config(file_path), into a directory that can be written or not
SaveConfig ==
    /\ \E writable \in BOOLEAN :
          \E r \in {save_config(gui.config, fs.config_file, writable)} :
              /\ fs' = [fs EXCEPT !.config_file = r.file]
              /\ call' = [phase |-> "done", op |-> "save_config",
                          success |-> r.success, before |-> gui.config]
    /\ UNCHANGED <<images, combined, labelled, image_paths, platform, gui, batch>>

\* load_config(file_path)
LoadConfig ==
    /\ \E r \in {load_config(gui.config, fs.config_file)} :
          /\ gui' = [gui EXCEPT !.config = r.config]
          /\ call' = [phase |-> "done", op |-> "load_config", success |-> r.success,
                      reason |-> r.reason, before |-> gui.config,
                      file |-> fs.config_file]
    /\ UNCHANGED <<images, combined, labelled, image_paths, platform, fs, batch>>

\* the file is removed, or replaced by one the program did not write
ForeignFile ==
    /\ \E file \in ForeignFiles \ {fs.config_file} :
          fs' = [fs EXCEPT !.config_file = file]
    /\ UNCHANGED <<images, call, combined, labelled, image_paths, platform, gui, batch>>

\* ConfigManager(): the default configuration, no file yet
InitConfig ==
    /\ images = <<>>
    /\ image_paths = <<>>
    /\ call = IdleCall
    /\ combined = NoCall
    /\ labelled = NoCall
    /\ platform = NormalPlatform
    /\ fs = EmptyFS @@ [config_file |-> NoFile]
    /\ gui = IdleGui @@ [config |-> DefaultConfig]
    /\ batch = NoBatch

NextConfig == UpdateConfig \/ SaveConfig \/ LoadConfig \/ ForeignFile

SpecConfig == InitConfig /\ [][NextConfig]_vars

----------------------------------------------------------------------------
(* One processor: loads, reorders and clears in any order                  *)

\* the files the paths 1..5 name: three pictures of three sizes, a file that
\* does not decode, and a path without a file
ProcessorFiles ==
    <<File("ok", Image(600, 400)), File("ok", Image(2048, 1000)),
      File("ok", Image(300, 500)), File("corrupt", Image(0, 0)),
      File("missing", Image(0, 0))>>

MaxLoadPaths == 2
MaxOrder == 3

\* load_images(paths)
LoadImages ==
    /\ \E paths \in ListsUpTo(1..Len(ProcessorFiles), MaxLoadPaths) :
          \E r \in {load_images(Processor(images, image_paths), paths, fs.sources)} :
              /\ images' = r.images
              /\ image_paths' = r.image_paths
              /\ call' = [phase |-> "done", op |-> "load_images", paths |-> paths,
                          before |-> Processor(images, image_paths),
                          success |-> r.success, errors |-> r.errors,
                          added_count |-> r.added_count,
                          skipped_count |-> r.skipped_count]
    /\ UNCHANGED <<combined, labelled, platform, fs, gui, batch>>

\* reorder_images(new_order), with any list of indices
ReorderImages ==
    /\ \E new_order \in ListsUpTo((0 - 1)..MaxOrder, MaxOrder) :
          \E r \in {reorder_images(Processor(images, image_paths), new_order)} :
              /\ images' = r.images
              /\ image_paths' = r.image_paths
              /\ call' = [phase |-> "done", op |-> "reorder_images",
                          new_order |-> new_order,
                          before |-> Processor(images, image_paths),
                          raised |-> r.raised]
    /\ UNCHANGED <<combined, labelled, platform, fs, gui, batch>>

\* clear()
Clear ==
    /\ \E r \in {clear(Processor(images, image_paths))} :
          /\ images' = r.images
          /\ image_paths' = r.image_paths
    /\ call' = [phase |-> "done", op |-> "clear",
                before |-> Processor(images, image_paths)]
    /\ UNCHANGED <<combined, labelled, platform, fs, gui, batch>>

\* clear_images()
ClearImages ==
    /\ \E r \in {clear_images(Processor(images, image_paths))} :
          /\ images' = r.images
          /\ image_paths' = r.image_paths
    /\ call' = [phase |-> "done", op |-> "clear_images",
                before |-> Processor(images, image_paths)]
    /\ UNCHANGED <<combined, labelled, platform, fs, gui, batch>>

\* ImageProcessor(): both lists empty
InitProcessor ==
    /\ images = <<>>
    /\ image_paths = <<>>
    /\ call = IdleCall
    /\ combined = NoCall
    /\ labelled = NoCall
    /\ platform = NormalPlatform
    /\ fs = [EmptyFS EXCEPT !.sources = ProcessorFiles]
    /\ gui = IdleGui
    /\ batch = NoBatch

NextProcessor == LoadImages \/ ReorderImages \/ Clear \/ ClearImages

SpecProcessor == InitProcessor /\ [][NextProcessor]_vars

----------------------------------------------------------------------------
(* The live preview: the controls and the timer that follows their changes *)

\* "self.preview_update_delay = 200", in milliseconds
preview_update_delay == 200
\* the step of the clock, in milliseconds: half the delay
TickMs == preview_update_delay \div 2
MaxChanges == 3

\* QTimer(self) with setSingleShot(True), not started
IdleTimer == [active |-> FALSE, remaining |-> 0]

\* _schedule_preview_update(): QTimer.start(msec) starts the timer, and
\* stops and restarts one that is running
_schedule_preview_update(timer) == [active |-> TRUE, remaining |-> preview_update_delay]

\* the controls as the window builds them
DefaultControls ==
    [rows |-> 2, cols |-> 1, resize_mode |-> "longest_edge", size |-> MinImageSize,
     aspect_ratio |-> FreeRatio, h_spacing |-> DefaultSpacing,
     v_spacing |-> DefaultSpacing, spacing_unit |-> "cm", bg_color |-> "white",
     margin |-> DefaultMargin, align |-> "center", label_format |-> "(a)",
     label_position |-> "top_left", font_name |-> "Arial",
     font_size |-> DefaultFontSize, label_margin |-> DefaultMargin,
     installed |-> {"arial.ttf"}, dpi |-> 300, output_format |-> "PNG"]

\* the values the user gives to the controls connected to the timer
ControlValues ==
    [rows |-> 1..2, align |-> Aligns, label_margin |-> {0, DefaultMargin}]

\* valueChanged / currentIndexChanged / toggled of a connected control: the
\* control holds the new value and _schedule_preview_update runs
ControlChanged ==
    /\ gui.changes < MaxChanges
    /\ \E control \in DOMAIN ControlValues :
          \E value \in ControlValues[control] \ {gui.controls[control]} :
              gui' = [gui EXCEPT !.controls[control] = value,
                                 !.timer = _schedule_preview_update(@),
                                 !.changes = @ + 1,
                                 !.burst = IF gui.timer.active THEN @ + 1 ELSE 1,
                                 !.since_change = 0,
                                 !.recomputed = 0]
    /\ UNCHANGED <<images, call, combined, labelled, image_paths, platform, fs, batch>>

\* time passes while the timer runs
Tick ==
    /\ gui.timer.active /\ gui.timer.remaining > 0
    /\ gui' = [gui EXCEPT !.timer.remaining = Max(0, @ - TickMs),
                          !.since_change = @ + TickMs]
    /\ UNCHANGED <<images, call, combined, labelled, image_paths, platform, fs, batch>>

\* the timer expires: single-shot, it stops, and its timeout signal runs
\* _delayed_update_preview, which calls update_preview
Timeout ==
    /\ gui.timer.active /\ gui.timer.remaining = 0
    /\ \E r \in {update_preview(images, gui.controls, gui.current_preview)} :
          /\ images' = r.images
          /\ gui' = [gui EXCEPT !.handler = "update_preview",
                                !.outcome = r.outcome,
                                !.current_preview = r.current_preview,
                                !.images_before = images,
                                !.substituted = r.substituted,
                                !.timer = IdleTimer,
                                !.recomputed = @ + 1,
                                !.previewed = gui.controls,
                                !.fired_after = gui.since_change]
    /\ UNCHANGED <<call, combined, labelled, image_paths, platform, fs, batch>>

\* the values a loaded configuration gives to the connected controls
LoadedControls == [rows : 1..2, align : {"center", "left"}, label_margin : {DefaultMargin}]

\* apply_config(), after a configuration was loaded: setValue / setChecked
\* on every control, where each control whose value changes emits its signal
\* and so runs _schedule_preview_update; then "self.update_preview()" at the
\* end of the handler
ApplyConfig ==
    /\ gui.changes < MaxChanges
    /\ \E config \in LoadedControls :
          LET controls == [gui.controls EXCEPT !.rows = config.rows,
                                               !.align = config.align,
                                               !.label_margin = config.label_margin]
              changed  == controls # gui.controls
          IN  \E r \in {update_preview(images, controls, gui.current_preview)} :
                 /\ images' = r.images
                 /\ gui' = [gui EXCEPT
                       !.controls = controls,
                       !.timer = IF changed THEN _schedule_preview_update(@) ELSE @,
                       !.changes = @ + 1,
                       !.burst = IF ~changed THEN @
                                 ELSE IF gui.timer.active THEN @ + 1 ELSE 1,
                       !.since_change = IF changed THEN 0 ELSE @,
                       !.handler = "apply_config",
                       !.outcome = r.outcome,
                       !.current_preview = r.current_preview,
                       !.images_before = images,
                       !.substituted = r.substituted,
                       !.recomputed = (IF changed THEN 0 ELSE @) + 1,
                       !.previewed = controls]
    /\ UNCHANGED <<call, combined, labelled, image_paths, platform, fs, batch>>

\* the window after connect_signals, with the images of the session loaded
InitPreview ==
    /\ images \in {<<Thumbnail(Image(600, 400))>>,
                   <<Thumbnail(Image(600, 400)), Thumbnail(Image(300, 500))>>}
    /\ image_paths = PathsOf(images)
    /\ platform \in [empty_resize : {"returns"}, canvas_memory : {"enough", "exhausted"}]
    /\ fs = EmptyFS
    /\ call = IdleCall
    /\ combined = NoCall
    /\ labelled = NoCall
    /\ batch = NoBatch
    /\ gui = IdleGui @@ [controls |-> DefaultControls, timer |-> IdleTimer,
                         changes |-> 0, burst |-> 0, since_change |-> 0,
                         recomputed |-> 0, previewed |-> None, fired_after |-> 0]

NextPreview == ControlChanged \/ ApplyConfig \/ Tick \/ Timeout

SpecPreview == InitPreview /\ [][NextPreview]_vars

\* the timer has expired and its timeout signal is due
TimerExpired == gui.timer.active /\ gui.timer.remaining = 0

\* the event loop keeps running: time passes while the timer runs, and an
\* expired timer fires.  Timeout is enabled exactly when TimerExpired holds
\* and every Timeout step stops the timer, so []<>~TimerExpired is
\* WF_vars(Timeout) with the enabling condition written out.
SpecPreviewLive == SpecPreview /\ WF_vars(Tick) /\ []<>~TimerExpired

----------------------------------------------------------------------------
(* The batch driver: one run over a list of folders                        *)

\* a file of a folder: its extension, whether it decodes, its picture
FolderFile(ext, status, img) == [ext |-> ext, status |-> status, img |-> img]
Folder(name, listable, files) == [name |-> name, listable |-> listable, files |-> files]

\* folders: every image usable; one of two images corrupt, beside a text
\* file; the only image corrupt; no image file; a folder that was removed
BatchFolders ==
    { Folder("all", TRUE, <<FolderFile(".png", "ok", Image(600, 400)),
                            FolderFile(".jpg", "ok", Image(2048, 1000))>>),
      Folder("some", TRUE, <<FolderFile(".png", "ok", Image(600, 400)),
                             FolderFile(".txt", "corrupt", Image(0, 0)),
                             FolderFile(".png", "corrupt", Image(0, 0))>>),
      Folder("none", TRUE, <<FolderFile(".tif", "corrupt", Image(0, 0))>>),
      Folder("empty", TRUE, <<FolderFile(".txt", "corrupt", Image(0, 0))>>),
      Folder("gone", FALSE, <<>>) }

MaxFolders == 2

\* ConfigManager._get_default_config(), with either bitmap output format
BatchConfigs ==
    [rows : {2}, cols : {2}, resize_mode : {"longest_edge"}, image_size : {800},
     aspect_ratio : {FreeRatio}, h_spacing : {20}, v_spacing : {20},
     spacing_unit : {"px"}, label_format : {"(a)"}, label_position : {"top_left"},
     label_font : {"Arial"}, label_font_size : {12}, label_color : {"black"},
     label_margin : {10}, bg_color : {"white"}, canvas_margin : {10},
     align : {"center"}, output_format : {"PNG", "TIFF"}, dpi : {300}]

\* a finished signal that always reports success
FinishedAlwaysTrue(ok) == <<"finished", TRUE>>

\* the signals of BatchProcessor as entries of the emission log
ProgressUpdated(current, total, name) == <<"progress_updated", current, total, name>>
Finished(ok) == <<"finished", ok>>

\* what an exception raised inside a progress observer does to the process:
\* the exception hook reports it, or the binding ends the process
ObserverErrors == {"reported", "fatal"}

\* update_progress(): "if progress_dialog.wasCanceled(): if
\* self.batch_processor: self.batch_processor.stop()".  BatchProcessor
\* defines no stop() and inherits none, so the call raises AttributeError
\* inside the observer; nothing is stored that run() could read
update_progress(b) ==
    IF b.canceled THEN [b EXCEPT !.stop_requested = TRUE] ELSE b

\* the user presses the cancel button of the progress dialog
CancelPressed ==
    /\ batch.started /\ batch.finished = "none"
    /\ ~batch.canceled
    /\ batch' = [batch EXCEPT !.canceled = TRUE]
    /\ UNCHANGED <<images, call, combined, labelled, image_paths, platform, fs, gui>>

\* one turn of "for folder in self.folders" in run(): the progress signal
\* and its observer, process_folder, and on failure the finished(False, ...)
\* signal and return
ProcessNextFolder ==
    /\ batch.started /\ batch.finished = "none"
    /\ batch.next <= Len(batch.folders)
    /\ LET folder == batch.folders[batch.next]
           announced == update_progress(
               [batch EXCEPT
                  !.progress = <<batch.processed, Len(batch.folders), folder.name>>,
                  !.emitted = Append(@, ProgressUpdated(batch.processed,
                                                        Len(batch.folders), folder.name))])
       IN  IF announced.stop_requested /\ batch.observer_error = "fatal"
           THEN /\ batch' = [announced EXCEPT !.finished = "aborted"]
                /\ fs' = fs
           ELSE \E r \in {process_folder(folder, folder.name, batch.config,
                                         batch.output_dir, fs)} :
              /\ fs' = r.fs
              /\ batch' = [announced EXCEPT
                    !.results = Append(@, [folder |-> folder, success |-> r.success,
                                           reason |-> r.reason, loaded |-> r.loaded,
                                           failed |-> r.failed, files_before |-> fs.files]),
                    !.emitted = IF r.success THEN @ ELSE Append(@, Finished(FALSE)),
                    !.finished = IF r.success THEN "none" ELSE "failed",
                    !.processed = IF r.success THEN @ + 1 ELSE @,
                    !.next = IF r.success THEN @ + 1 ELSE @]
    /\ UNCHANGED <<images, call, combined, labelled, image_paths, platform, gui>>

\* the loop ended: finished(True, ...)
FinishRun ==
    /\ batch.started /\ batch.finished = "none"
    /\ batch.next > Len(batch.folders)
    /\ batch' = [batch EXCEPT !.finished = "completed",
                              !.emitted = Append(@, Finished(TRUE))]
    /\ UNCHANGED <<images, call, combined, labelled, image_paths, platform, fs, gui>>

\* BatchProcessor(folders, config, output_dir).start()
InitBatch ==
    /\ \E folders \in ListsUpTo(BatchFolders, MaxFolders), config \in BatchConfigs,
          observer_error \in ObserverErrors :
          batch = [started |-> TRUE, folders |-> folders, config |-> config,
                   output_dir |-> "out", next |-> 1, processed |-> 0,
                   progress |-> <<>>, results |-> <<>>, finished |-> "none",
                   emitted |-> <<>>, canceled |-> FALSE, stop_requested |-> FALSE,
                   observer_error |-> observer_error]
    /\ \E no_mkdir \in SUBSET {"out"}, no_write \in SUBSET {"out"} :
          fs = [sources |-> <<>>, dirs |-> {"."}, files |-> {},
                no_mkdir |-> no_mkdir, no_write |-> no_write]
    /\ platform \in [empty_resize : {"returns"}, canvas_memory : {"enough", "exhausted"}]
    /\ images = <<>>
    /\ image_paths = <<>>
    /\ call = IdleCall
    /\ combined = NoCall
    /\ labelled = NoCall
    /\ gui = IdleGui

NextBatch == ProcessNextFolder \/ FinishRun \/ CancelPressed

SpecBatch == InitBatch /\ [][NextBatch]_vars

----------------------------------------------------------------------------
(* Claims about create_combined_image, checked under Spec                  *)

\* create_combined_image ran and returned a canvas
Composed == combined.called /\ combined.result.canvas # None

\* the composition was capped: an unscaled total exceeds max_canvas_size
Capped ==
    \/ combined.result.total_width > max_canvas_size
    \/ combined.result.total_height > max_canvas_size

\* where the cell of the 0-based column (row) k starts: the margin, then the
\* k columns (rows) before it, each followed by one spacing
CellStart(k, sizes, spacing, margin) ==
    margin + SumSeq(SubSeq(sizes, 1, k)) + k * spacing

\* the 0-based indices of the images that occupy column c / row r of a grid
\* filled row by row
InColumn(c, rows, cols, n) == {i \in 0..(n - 1) : i < rows * cols /\ i % cols = c}
InRow(r, rows, cols, n) == {i \in 0..(n - 1) : i < rows * cols /\ i \div cols = r}

\* C1 as stated: for any image list and any rows, cols, spacings and margin,
\* the returned canvas is 2*margin + sum(col_widths) + (cols-1)*h_spacing wide
\* and 2*margin + sum(row_heights) + (rows-1)*v_spacing high.
C1_CanvasIsGridTotal ==
    Composed =>
        LET a == combined.args
            g == combined.result
        IN  /\ g.canvas.width =
                 2 * a.margin + SumSeq(g.col_widths) + (a.cols - 1) * a.h_spacing
            /\ g.canvas.height =
                 2 * a.margin + SumSeq(g.row_heights) + (a.rows - 1) * a.v_spacing

\* C1 amended: the same equalities for every non-empty image list whose
\* unscaled totals do not exceed 16384 on either axis.
C1_CanvasIsGridTotalUncapped ==
    (combined.called /\ images # <<>>
       /\ 2 * combined.args.margin + SumSeq(col_widths(images, combined.args.rows, combined.args.cols))
            + (combined.args.cols - 1) * combined.args.h_spacing <= max_canvas_size
       /\ 2 * combined.args.margin + SumSeq(row_heights(images, combined.args.rows, combined.args.cols))
            + (combined.args.rows - 1) * combined.args.v_spacing <= max_canvas_size)
    => /\ combined.result.canvas # None
       /\ C1_CanvasIsGridTotal

\* C1 witness: two columns and two rows with non-zero spacings and margin,
\* three images, no cap
C1_Witness ==
    /\ Composed /\ ~Capped /\ Len(images) = 3
    /\ combined.args.rows = 2 /\ combined.args.cols = 2
    /\ combined.args.h_spacing > 0 /\ combined.args.v_spacing > 0
    /\ combined.args.margin > 0
    /\ combined.result.canvas.width = 400 + 171 + 20 + 20

\* C2 as stated: when an unscaled total exceeds 16384, both canvas
\* dimensions are at most 16384 and each is the unscaled total times
\* 16384 / max(total_width, total_height), rounded down.
C2_CapScalesBoth ==
    (Composed /\ Capped) =>
        LET g == combined.result
            m == Max(g.total_width, g.total_height)
        IN  /\ g.canvas.width <= max_canvas_size
            /\ g.canvas.height <= max_canvas_size
            /\ g.canvas.width = (g.total_width * max_canvas_size) \div m
            /\ g.canvas.height = (g.total_height * max_canvas_size) \div m

\* total * 16384 / m truncated after the float multiplication: the floor of
\* the exact product, or one less where the exact product is an integer
TruncatedScale(size, total, m) ==
    LET exact == (total * max_canvas_size) \div m
    IN  \/ size = exact
        \/ size = exact - 1 /\ (total * max_canvas_size) % m = 0

\* C2 amended: when an unscaled total exceeds 16384, both canvas dimensions
\* are at most 16384 and each is int(total * scale) for the one float factor
\* scale = 16384 / max(total_width, total_height): the floor of the exact
\* product total * 16384 / max, or one pixel less where that product is an
\* integer and the float product rounds just below it.
C2_CapScalesBothTruncated ==
    (Composed /\ Capped) =>
        LET g == combined.result
            m == Max(g.total_width, g.total_height)
        IN  /\ g.canvas.width <= max_canvas_size
            /\ g.canvas.height <= max_canvas_size
            /\ TruncatedScale(g.canvas.width, g.total_width, m)
            /\ TruncatedScale(g.canvas.height, g.total_height, m)

\* C2 witness: a total width of 16661 is capped to 16383, one pixel below
\* 16661 * 16384 / 16661, and the total height of two rows is scaled by the
\* same factor
C2_Witness ==
    /\ Composed /\ Capped
    /\ combined.result.total_width = 16661
    /\ combined.result.canvas.width = max_canvas_size - 1
    /\ combined.result.total_height > 300
    /\ combined.result.canvas.height = (combined.result.total_height * max_canvas_size) \div 16661

\* C4: each column width is the greatest width among the images of that
\* column, each row height the greatest height among the images of that row,
\* and a column or row without image has size 0.
C4_CellSizesAreMaxima ==
    Composed =>
        LET a == combined.args
            g == combined.result
            n == Len(images)
        IN  /\ \A c \in 0..(a.cols - 1) :
                 g.col_widths[c + 1] =
                    IF InColumn(c, a.rows, a.cols, n) = {} THEN 0
                    ELSE MaxOf({images[i + 1].width : i \in InColumn(c, a.rows, a.cols, n)})
            /\ \A r \in 0..(a.rows - 1) :
                 g.row_heights[r + 1] =
                    IF InRow(r, a.rows, a.cols, n) = {} THEN 0
                    ELSE MaxOf({images[i + 1].height : i \in InRow(r, a.rows, a.cols, n)})

\* C4 witness: a 2 x 2 grid with two images of different sizes: the first
\* row takes the greater height, the second row is empty and has height 0
C4_Witness ==
    /\ Composed /\ Len(images) = 2
    /\ combined.args.rows = 2 /\ combined.args.cols = 2
    /\ images[1].height < images[2].height
    /\ images[1].width # images[2].width
    /\ combined.result.row_heights = <<images[2].height, 0>>
    /\ combined.result.col_widths = <<images[1].width, images[2].width>>

\* C5: inside its cell an image is pasted at x = cell_x + (cell_width -
\* image_width) / 2 for center, x = cell_x for left and x = cell_x +
\* cell_width - image_width for right; y = cell_y + (cell_height -
\* image_height) / 2 for all three, so y does not depend on align.
C5_AlignOffsets ==
    Composed =>
        LET a == combined.args
            g == combined.result
        IN  \A k \in 1..Len(g.pastes) :
              LET p      == g.pastes[k]
                  cell_x == CellStart(p.idx % a.cols, g.col_widths, a.h_spacing, a.margin)
                  cell_y == CellStart(p.idx \div a.cols, g.row_heights, a.v_spacing, a.margin)
                  cell_w == g.col_widths[(p.idx % a.cols) + 1]
                  cell_h == g.row_heights[(p.idx \div a.cols) + 1]
              IN  /\ a.align = "center" => p.x = cell_x + (cell_w - p.width) \div 2
                  /\ a.align = "left" => p.x = cell_x
                  /\ a.align = "right" => p.x = cell_x + cell_w - p.width
                  /\ p.y = cell_y + (cell_h - p.height) \div 2

\* C5 witness: right alignment on a 2 x 2 grid; the first image is lower
\* than its row and is centred vertically, the third is narrower than its
\* column and is pasted against the column's right edge
C5_Witness ==
    /\ Composed /\ ~Capped
    /\ combined.args.align = "right" /\ combined.args.rows = 2 /\ combined.args.cols = 2
    /\ combined.args.margin = 10 /\ combined.args.v_spacing = 15
    /\ images = <<Image(400, 266), Image(171, 300), Image(171, 300)>>
    /\ combined.result.pastes[1].y = 10 + (300 - 266) \div 2
    /\ combined.result.pastes[3].x = 10 + 400 - 171
    /\ combined.result.pastes[3].y = 10 + 300 + 15

\* C20: create_combined_image has no side effect beyond the canvas it
\* returns: when it has returned (a canvas, None for an empty list, None
\* after an internal failure), ImageProcessor.images has the length, order
\* and images it had before the call, and image_paths is unchanged.
C20_ComposeLeavesImages ==
    combined.called =>
        /\ images = combined.images_before
        /\ image_paths = combined.paths_before

\* C20 witness: three images, two of them pasted on a grid of two cells, and
\* the list still holds the three
C20_Witness ==
    /\ Composed /\ Len(combined.result.pastes) = 2
    /\ Len(combined.images_before) = 3 /\ images = combined.images_before

\* C20 witness: the canvas could not be allocated, create_combined_image
\* returned None, and the three images are still in the list
C20_FailureWitness ==
    /\ combined.called /\ combined.result.canvas = None
    /\ platform.canvas_memory = "exhausted"
    /\ Len(combined.images_before) = 3 /\ images = combined.images_before

----------------------------------------------------------------------------
(* Claims about add_labels, checked under SpecLabels                       *)

Labelled == labelled.called /\ labelled.result.canvas # None

\* the cells a grid of rows x cols offers to n images
Shown(n, rows, cols) == Min(n, rows * cols)

\* the rectangle lies in the cell of row idx div cols, column idx mod cols
\* of the planned grid
InOwnCell(idx, x, y, w, h) ==
    LET a      == combined.args
        g      == combined.result
        cell_x == CellStart(idx % a.cols, g.col_widths, a.h_spacing, a.margin)
        cell_y == CellStart(idx \div a.cols, g.row_heights, a.v_spacing, a.margin)
    IN  /\ cell_x <= x /\ x + w <= cell_x + g.col_widths[(idx % a.cols) + 1]
        /\ cell_y <= y /\ y + h <= cell_y + g.row_heights[(idx \div a.cols) + 1]

\* C3: images fill the cells row by row: image i is pasted, and labelled, in
\* row i div cols and column i mod cols; images with index >= rows*cols are
\* neither pasted nor labelled nor counted in a column width or row height;
\* and the composition of a non-empty list returns a canvas all the same.
C3_RowMajorAndDropped ==
    (combined.called /\ images # <<>>) =>
        LET a     == combined.args
            g     == combined.result
            shown == Shown(Len(images), a.rows, a.cols)
            kept  == SubSeq(images, 1, shown)
        IN  /\ g.canvas # None
            /\ Len(g.pastes) = shown
            /\ \A k \in 1..Len(g.pastes) :
                  LET p == g.pastes[k]
                  IN  /\ p.idx = k - 1
                      /\ p.r = p.idx \div a.cols /\ p.c = p.idx % a.cols
                      /\ Image(p.width, p.height) = images[k]
                      /\ InOwnCell(p.idx, p.x, p.y, p.width, p.height)
            /\ g.col_widths = col_widths(kept, a.rows, a.cols)
            /\ g.row_heights = row_heights(kept, a.rows, a.cols)
            /\ labelled.called =>
                  /\ Len(labelled.result.labels) = shown
                  /\ \A k \in 1..Len(labelled.result.labels) :
                        LET l == labelled.result.labels[k]
                        IN  /\ l.idx = k - 1
                            /\ l.r = l.idx \div a.cols /\ l.c = l.idx % a.cols
                            /\ InOwnCell(l.idx, l.img_x, l.img_y, l.width, l.height)

\* C3 witness: seven images on a 2 x 2 grid: four are pasted and labelled,
\* three are dropped, and a canvas is returned
C3_Witness ==
    /\ Labelled /\ Len(images) = 7
    /\ combined.args.rows = 2 /\ combined.args.cols = 2
    /\ Len(combined.result.pastes) = 4
    /\ Len(labelled.result.labels) = 4
    /\ combined.result.pastes[4].r = 1 /\ combined.result.pastes[4].c = 1

\* the label text of the claim: the letter 'a' + (i mod 26) in the format
WrappedLabel(label_format, i) ==
    LET letter == 97 + (i % 26)
    IN  IF label_format = "(a)" THEN <<40, letter, 41>>
        ELSE IF label_format = "a/" THEN <<letter, 47>>
        ELSE <<70, 105, 103, 49, letter>>

\* C6: the label of image i is the letter 'a' + (i mod 26) in the chosen
\* format: index 0 gives '(a)', index 25 '(z)', index 26 wraps to '(a)'.
C6_LabelLetterWraps ==
    Labelled =>
        \A k \in 1..Len(labelled.result.labels) :
            LET l == labelled.result.labels[k]
            IN  l.text = WrappedLabel(labelled.args.label_format, l.idx)

\* C7: with the image's rectangle (img_x, img_y, img_w, img_h), the measured
\* text box (text_w, text_h) and the label margin m, the label is drawn at
\* (img_x+m, img_y+m) for top_left, (img_x+img_w-text_w-m, img_y+m) for
\* top_right, (img_x+m, img_y+img_h-text_h-m) for bottom_left and
\* (img_x+img_w-text_w-m, img_y+img_h-text_h-m) for bottom_right.
C7_LabelAnchors ==
    Labelled =>
        \A k \in 1..Len(labelled.result.labels) :
            LET l      == labelled.result.labels[k]
                pos    == labelled.args.label_position
                m      == labelled.args.label_margin
                bbox   == TextBBox(l.text, labelled.result.font, labelled.args.font_size)
                text_w == bbox[3] - bbox[1]
                text_h == bbox[4] - bbox[2]
                left   == l.img_x + m
                right  == l.img_x + l.width - text_w - m
                top    == l.img_y + m
                bottom == l.img_y + l.height - text_h - m
            IN  /\ pos = "top_left" => l.text_x = left /\ l.text_y = top
                /\ pos = "top_right" => l.text_x = right /\ l.text_y = top
                /\ pos = "bottom_left" => l.text_x = left /\ l.text_y = bottom
                /\ pos = "bottom_right" => l.text_x = right /\ l.text_y = bottom

\* C7 witness: bottom_right labels drawn with a TrueType font and a non-zero
\* label margin on two images
C7_Witness ==
    /\ Labelled /\ Len(labelled.result.labels) = 2
    /\ labelled.args.label_position = "bottom_right"
    /\ labelled.args.label_margin = 10
    /\ labelled.result.font = "simsun.ttc"
    /\ labelled.args.label_format = "Fig1a"
    /\ labelled.result.labels[2].text_x < labelled.result.labels[2].img_x + labelled.result.labels[2].width - 10

\* C18: font resolution in add_labels is never fatal: whichever attempts
\* fail (the requested name, the alias of a recognised family, the Arial
\* paths), add_labels ends with a font that loads on the platform or with
\* the built-in default font, and draws the label of every image shown.
C18_FontNeverFatal ==
    Labelled =>
        /\ labelled.result.font \in labelled.args.installed \cup {"default"}
        /\ Len(labelled.result.labels) = Shown(Len(images), combined.args.rows, combined.args.cols)
        /\ (labelled.args.installed \cap
               ({labelled.args.font_name, "simsun.ttc", "simhei.ttf", "times.ttf"}
                \cup {FontPaths[k] : k \in 1..Len(FontPaths)}) = {})
           => labelled.result.font = "default"

\* C18 witness: the requested family and its alias do not load (an Arial
\* file is installed, and is not tried for a recognised family); the labels
\* of a non-empty grid were drawn with the default font
C18_Witness ==
    /\ Labelled
    /\ labelled.args.font_name = "SimHei" /\ labelled.args.installed = {"arial.ttf"}
    /\ labelled.result.font = "default"
    /\ Len(labelled.result.labels) >= 2

----------------------------------------------------------------------------
(* Claims about resize_image, checked under SpecResize                     *)

Abs(x) == IF x < 0 THEN 0 - x ELSE x

\* a call of resize_image has returned (the first call or the repeated one)
Resized == call.phase \in {"once", "twice"}

\* C8: for every image with positive width and height and every target
\* S > 0, longest_edge without a forced ratio returns dimensions whose
\* maximum is S within 1 px, each dimension within one pixel of the source
\* dimension scaled by S / max(w, h).
C8_LongestEdgeMeetsTarget ==
    (/\ Resized
     /\ call.mode = "longest_edge" /\ call.aspect_ratio = FreeRatio
     /\ call.img.width > 0 /\ call.img.height > 0)
    => LET m == Max(call.img.width, call.img.height)
           r == call.result
       IN  /\ Abs(Max(r.width, r.height) - call.size) <= 1
           /\ Abs(r.width * m - call.img.width * call.size) <= m
           /\ Abs(r.height * m - call.img.height * call.size) <= m

C10_ResizeIdempotent ==
    call.phase = "twice" => call.result = call.img

\* C12: for every image, mode, target size and forced ratio, resize_image
\* with fast=True and with fast=False return the same width and height:
\* the call with the other value of the flag gives the dimensions this call
\* returned.
C12_FastFlagKeepsDimensions ==
    Resized =>
        call.result = resize_image(call.img, call.mode, call.size,
                                   call.aspect_ratio, ~call.fast)

\* C12 witness: a preview-quality call (fast) under a forced ratio changed the
\* dimensions of its source
C12_Witness ==
    /\ call.phase = "once" /\ call.fast
    /\ call.mode = "shortest_edge" /\ call.aspect_ratio = <<4, 3>>
    /\ call.img = Image(700, 300)
    /\ call.result # call.img

\* C13: whenever aspect_ratio is set, under every mode ('original'
\* included) resize_image returns what the width-dominant / height-dominant
\* scaling followed by the centre crop gives, so the result has the forced
\* ratio up to the integer rounding of one dimension.
C13_RatioUnderEveryMode ==
    (call.phase = "once" /\ call.aspect_ratio # FreeRatio)
    => LET rw == call.aspect_ratio[1]
           rh == call.aspect_ratio[2]
           r  == call.result
       IN  /\ r = ForcedRatio(call.img, call.size, call.aspect_ratio)
           /\ \/ r.width = (r.height * rw) \div rh
              \/ r.height = (r.width * rh) \div rw

----------------------------------------------------------------------------
(* Claims about degenerate sources, checked under SpecDegenerate           *)

\* what resize_image returned is an image: a width and a height
IsImage(x) == DOMAIN x = {"width", "height"}

\* C11: resize_image applied to a source of width 0 or height 0 ends, under
\* every mode, in an error outcome the caller can observe: what the caller
\* receives is not an image, neither the source nor a resized one.
C11_DegenerateFails ==
    (call.phase = "once" /\ (call.img.width = 0 \/ call.img.height = 0))
    => ~IsImage(call.result)

----------------------------------------------------------------------------
(* Claims about the window's handlers, checked under SpecGui               *)

\* C14: when update_preview or output_image returns, on every exit path
\* (no images, no preview, a cancelled dialog, an unreadable source, a
\* composition that failed, a display or a save that failed, success),
\* ImageProcessor.images is the list it was before the call.
C14_SubstitutionScoped ==
    gui.handler \in {"update_preview", "output_image"} => images = gui.images_before

\* C14 witness: update_preview substituted resized variants that differ from
\* the originals, the composition failed, the display code raised, and the
\* list is the original one again
C14_Witness ==
    /\ gui.handler = "update_preview" /\ gui.outcome = "error"
    /\ gui.substituted # <<>> /\ gui.substituted # gui.images_before
    /\ images = gui.images_before

----------------------------------------------------------------------------
(* Claims about the batch driver, checked under SpecBatch                  *)

\* the folder process_folder last returned from, and what it reported
LastResult == batch.results[Len(batch.results)]

\* the image files of a folder that decode, and those that do not
Usable(folder) ==
    {i \in 1..Len(folder.files) :
        folder.files[i].ext \in ImageExtensions /\ folder.files[i].status = "ok"}
Unusable(folder) ==
    {i \in 1..Len(folder.files) :
        folder.files[i].ext \in ImageExtensions /\ folder.files[i].status # "ok"}

\* the output directory can be created and written, and the canvas allocated
OutputPossible ==
    /\ batch.output_dir \notin fs.no_mkdir /\ batch.output_dir \notin fs.no_write
    /\ platform.canvas_memory = "enough"

\* C15: the batch driver continues after a failure: once run has emitted
\* its finished signal, every folder of the list has been attempted exactly
\* once, whatever the outcome of the earlier ones.
C15_ContinuesAfterFailure ==
    (batch.started /\ batch.finished # "none")
    => /\ Len(batch.results) = Len(batch.folders)
       /\ \A k \in 1..Len(batch.folders) : batch.results[k].folder = batch.folders[k]

\* C16: a folder in which some but not all images fail to load is still
\* composed from the images that loaded (process_folder succeeds, having
\* skipped the failing ones); the item fails only when all of its images
\* fail.
C16_PartialLoadStillComposed ==
    (/\ batch.started /\ batch.results # <<>> /\ OutputPossible
     /\ Usable(LastResult.folder) # {} /\ Unusable(LastResult.folder) # {})
    => /\ LastResult.success
       /\ LastResult.loaded = Cardinality(Usable(LastResult.folder))

\* C17: for a folder with at least one usable image and an output directory
\* that can be written, process_folder leaves exactly one new file, named
\* <folder-name>_combined.<ext> in the output directory, <ext> being the
\* configured output format.
C17_OneOutputFile ==
    (/\ batch.started /\ batch.results # <<>> /\ OutputPossible
     /\ Usable(LastResult.folder) # {})
    => fs.files = LastResult.files_before \cup
                    {Path(batch.output_dir,
                          OutputFilename(LastResult.folder.name,
                                         Lower(batch.config.output_format)))}

----------------------------------------------------------------------------
(* Claims about save_image, checked under SpecGui                          *)

\* output_image reached save_image
SaveCalled == gui.handler = "output_image" /\ gui.outcome \in {"saved", "failed"}

\* C19: save_image creates the missing directory of output_path before
\* writing; it reports success exactly when the directory exists or could
\* be created, the file could be written and there is a canvas; otherwise
\* it returns (False, message) without raising, nothing is written, and the
\* session goes on with its images.
C19_SaveCreatesDirOrReports ==
    SaveCalled =>
        LET dir      == OutputDir(gui.file_path)
            before   == gui.fs_before
            creatable == dir \in before.dirs \/ dir \notin before.no_mkdir
            possible == /\ creatable /\ dir \notin before.no_write
                        /\ platform.canvas_memory = "enough"
        IN  /\ creatable => dir \in fs.dirs
            /\ (gui.outcome = "saved") = possible
            /\ possible => fs.files = before.files \cup {gui.file_path}
            /\ ~possible => fs.files = before.files /\ images = gui.images_before

\* C19 witness: the directory of the chosen path did not exist; save_image
\* created it and wrote the file
C19_Witness ==
    /\ SaveCalled /\ gui.outcome = "saved"
    /\ gui.file_path.dir = "out" /\ "out" \notin gui.fs_before.dirs
    /\ "out" \in fs.dirs /\ gui.file_path \in fs.files

----------------------------------------------------------------------------
(* The end-to-end scenario, checked under SpecScenario                     *)

\* the four sources were resized with longest_edge = 400, composed on a
\* 2 x 2 grid with spacings 20, margin 10, align center, and labelled
\* "(a)".."(d)" at the top left
ScenarioRan ==
    /\ call.phase = "all" /\ call.sources = ScenarioSources
    /\ call.mode = "longest_edge" /\ call.size = 400
    /\ combined.called
    /\ combined.args.rows = 2 /\ combined.args.cols = 2
    /\ combined.args.h_spacing = 20 /\ combined.args.v_spacing = 20
    /\ combined.args.margin = 10 /\ combined.args.align = "center"
    /\ labelled.called
    /\ labelled.args.label_format = "(a)" /\ labelled.args.label_position = "top_left"

\* the label k (1-based) is the letter code in parentheses, its image was
\* placed at (x, y), and the text is drawn at that position plus the label
\* margin
LabelAt(k, code, x, y) ==
    LET l == labelled.result.labels[k]
    IN  /\ l.text = <<40, code, 41>>
        /\ l.img_x = x /\ l.img_y = y
        /\ l.text_x = x + labelled.args.label_margin
        /\ l.text_y = y + labelled.args.label_margin

\* C21: in the end-to-end scenario the resized images are 400x266, 400x300,
\* 400x400 and 400x171, the column maxima are 400 and 400, the row maxima
\* 300 and 400, the canvas is 840 x 740, and the labels "(a)", "(b)", "(c)",
\* "(d)" are drawn at the label margin from the images placed at (10, 27),
\* (430, 10), (10, 330) and (430, 444).
C21_EndToEndScenario ==
    ScenarioRan =>
        /\ images = <<Image(400, 266), Image(400, 300), Image(400, 400), Image(400, 171)>>
        /\ combined.result.col_widths = <<400, 400>>
        /\ combined.result.row_heights = <<300, 400>>
        /\ combined.result.canvas.width = 840 /\ combined.result.canvas.height = 740
        /\ Len(combined.result.pastes) = 4
        /\ combined.result.pastes[1].x = 10 /\ combined.result.pastes[1].y = 27
        /\ combined.result.pastes[4].x = 430 /\ combined.result.pastes[4].y = 444
        /\ Len(labelled.result.labels) = 4
        /\ LabelAt(1, 97, 10, 27)
        /\ LabelAt(2, 98, 430, 10)
        /\ LabelAt(3, 99, 10, 330)
        /\ LabelAt(4, 100, 430, 444)

\* C21 witness: the scenario ran with a label margin of 10: "(a)" is drawn
\* at (20, 37) on the 840 x 740 canvas
C21_Witness ==
    /\ ScenarioRan /\ labelled.args.label_margin = 10
    /\ labelled.result.canvas.width = 840 /\ labelled.result.canvas.height = 740
    /\ labelled.result.labels[1].text_x = 20 /\ labelled.result.labels[1].text_y = 37

----------------------------------------------------------------------------
(* Cancellation and the signals of a batch run, checked under SpecBatch    *)

\* C22: once the progress observer has requested cancellation, the folder in
\* progress completes (the run is not cut inside it) and no further folder
\* is started.
C22_CancelStopsBetweenFolders ==
    [][/\ batch'.finished # "aborted"
       /\ (batch.started /\ batch.stop_requested) =>
              Len(batch'.results) = Len(batch.results)]_vars

\* run() returned
RunEnded == batch.started /\ batch.finished \in {"failed", "completed"}

\* the positions of the emission log that hold the given signal
EmissionsOf(signal) == {i \in 1..Len(batch.emitted) : batch.emitted[i][1] = signal}

\* every folder of the run was processed with success
EveryFolderSucceeded ==
    /\ Len(batch.results) = Len(batch.folders)
    /\ \A i \in 1..Len(batch.results) : batch.results[i].success

\* C28: a run emits finished at most once and nothing after it; a run that
\* returned emitted it exactly once, finished(True) if and only if every
\* folder succeeded; the j-th progress signal precedes the j-th attempted
\* folder and carries the number of folders completed so far, the total and
\* the folder's name.
C28_FinishedOnceAndLast ==
    batch.started =>
        /\ Cardinality(EmissionsOf("finished")) <= 1
        /\ \A i \in EmissionsOf("finished") : i = Len(batch.emitted)
        /\ RunEnded =>
              /\ Cardinality(EmissionsOf("finished")) = 1
              /\ batch.emitted[Len(batch.emitted)] = <<"finished", EveryFolderSucceeded>>
        /\ Cardinality(EmissionsOf("progress_updated")) =
              Len(batch.results) + (IF batch.finished = "aborted" THEN 1 ELSE 0)
        /\ \A j \in EmissionsOf("progress_updated") :
              batch.emitted[j] =
                 <<"progress_updated", j - 1, Len(batch.folders), batch.folders[j].name>>
        /\ \A j \in 1..Len(batch.results) :
              /\ j \in EmissionsOf("progress_updated")
              /\ batch.results[j].folder = batch.folders[j]
              /\ Cardinality({i \in 1..(j - 1) : batch.results[i].success}) = j - 1

\* C28 witness: a run of two folders that ended at the failure of the
\* second: two progress signals, then finished(False)
C28_Witness ==
    /\ RunEnded /\ Len(batch.folders) = 2
    /\ Len(batch.emitted) = 3
    /\ batch.emitted[2][1] = "progress_updated" /\ batch.emitted[2][2] = 1
    /\ batch.emitted[3] = <<"finished", FALSE>>

----------------------------------------------------------------------------
(* The debounced preview, checked under SpecPreviewLive                    *)

\* the preview was recomputed from the values the controls hold now
Settled ==
    /\ ~gui.timer.active
    /\ gui.recomputed = 1
    /\ gui.previewed = gui.controls

\* while the timer runs no recomputation has followed the last change; when
\* it does not run, exactly one has, preview_update_delay after the last
\* change and from the values the controls hold
DebounceInvariant ==
    /\ gui.timer.remaining <= preview_update_delay
    /\ gui.timer.active => gui.recomputed = 0
    /\ (~gui.timer.active /\ gui.burst > 0) =>
          (Settled /\ gui.fired_after = preview_update_delay)

\* C23: every change of a control restarts the one single-shot timer, so no
\* recomputation happens inside a burst of changes; the burst is followed by
\* exactly one update_preview, 200 ms after its last change, computed from
\* the settled values of the controls.
C23_PreviewDebounced ==
    /\ []DebounceInvariant
    /\ [][gui'.changes > gui.changes =>
            gui'.timer = [active |-> TRUE, remaining |-> preview_update_delay]]_vars
    /\ (gui.timer.active ~> Settled)

----------------------------------------------------------------------------
(* The annotator against the compositor, checked under SpecLabels          *)

\* C24: add_labels, given the layout arguments of the composition, derives
\* for every image i < rows*cols the rectangle (img_x, img_y, width, height)
\* at which create_combined_image pasted that image.
C24_LabelsFollowPastes ==
    Labelled =>
        /\ Len(labelled.result.labels) = Len(combined.result.pastes)
        /\ \A k \in 1..Len(labelled.result.labels) :
              LET l == labelled.result.labels[k]
                  p == combined.result.pastes[k]
              IN  /\ l.idx = p.idx
                  /\ l.img_x = p.x /\ l.img_y = p.y
                  /\ l.width = p.width /\ l.height = p.height

\* C24 witness: a right-aligned grid of two columns or more was labelled,
\* and one of its images is narrower than its column and lower than its row,
\* so that both loops had to move it off its cell's corner
C24_Witness ==
    /\ Labelled /\ combined.args.align = "right" /\ combined.args.cols >= 2
    /\ \E k \in 1..Len(labelled.result.labels) :
          LET l == labelled.result.labels[k]
              g == combined.result
              a == combined.args
          IN  /\ l.width < g.col_widths[l.c + 1]
              /\ l.height < g.row_heights[l.r + 1]
              /\ l.img_x = g.pastes[k].x
              /\ l.img_x > CellStart(l.c, g.col_widths, a.h_spacing, a.margin)
              /\ l.img_y > CellStart(l.r, g.row_heights, a.v_spacing, a.margin)

----------------------------------------------------------------------------
(* Containment and separation of the pasted images, checked under Spec     *)

\* the rectangles of two pastes share no pixel
Disjoint(p, q) ==
    \/ p.x + p.width <= q.x \/ q.x + q.width <= p.x
    \/ p.y + p.height <= q.y \/ q.y + q.height <= p.y

\* C25: when neither unscaled total exceeds max_canvas_size and the spacings
\* and the margin are not negative, every pasted image lies inside its own
\* cell and inside the canvas at a distance of at least margin from each
\* edge, and no two pasted rectangles overlap, whatever the alignment.
C25_PastesContainedAndApart ==
    (/\ Composed /\ ~Capped
     /\ combined.args.h_spacing >= 0 /\ combined.args.v_spacing >= 0
     /\ combined.args.margin >= 0) =>
        LET a == combined.args
            g == combined.result
        IN  /\ \A k \in 1..Len(g.pastes) :
                  LET p == g.pastes[k]
                  IN  /\ InOwnCell(p.idx, p.x, p.y, p.width, p.height)
                      /\ a.margin <= p.x /\ p.x + p.width <= g.canvas.width - a.margin
                      /\ a.margin <= p.y /\ p.y + p.height <= g.canvas.height - a.margin
            /\ \A k, j \in 1..Len(g.pastes) : k # j => Disjoint(g.pastes[k], g.pastes[j])

\* C25 witness: three images of two sizes on a 2 x 2 grid with spacings and
\* a margin, not capped: the third shares the first one's column and is
\* narrower, and the second stands one spacing to the right of the first
C25_Witness ==
    /\ Composed /\ ~Capped
    /\ combined.args.rows = 2 /\ combined.args.cols = 2
    /\ combined.args.h_spacing = 20 /\ combined.args.v_spacing = 15
    /\ combined.args.margin = 10
    /\ Len(combined.result.pastes) = 3
    /\ combined.result.pastes[3].width < combined.result.pastes[1].width
    /\ combined.result.pastes[2].x >=
          combined.result.pastes[1].x + combined.result.pastes[1].width + 20
    /\ combined.result.pastes[3].y >=
          combined.result.pastes[1].y + combined.result.pastes[1].height + 15

----------------------------------------------------------------------------
(* The two lists of a processor, checked under SpecProcessor               *)

\* C26: after any sequence of load_images, reorder_images, clear and
\* clear_images, failing calls included, images and image_paths have the
\* same length and images[k] is the picture loaded from image_paths[k].
C26_ListsStayPaired ==
    /\ Len(images) = Len(image_paths)
    /\ \A k \in 1..Len(images) :
          /\ fs.sources[image_paths[k]].status = "ok"
          /\ images[k] = Thumbnail(fs.sources[image_paths[k]].img)

\* C26 witness: a reorder moved the pictures of a list of three, after a
\* load that reported an error
C26_Witness ==
    /\ call.phase = "done" /\ call.op = "reorder_images" /\ ~call.raised
    /\ Len(images) = 3
    /\ images # call.before.images
    /\ image_paths # call.before.image_paths

\* the sequence holds no value twice
NoDuplicate(seq) == \A i, j \in 1..Len(seq) : seq[i] = seq[j] => i = j

\* the values of a sequence
Range(seq) == {seq[i] : i \in 1..Len(seq)}

\* C27: load_images appends only paths that image_paths did not hold, once
\* each, so a list without duplicates stays without; a path already loaded
\* is counted as skipped and is no error; a call given only loaded paths
\* leaves both lists as they were and returns success.
C27_NoPathLoadedTwice ==
    (call.phase = "done" /\ call.op = "load_images") =>
        LET old   == call.before.image_paths
            added == SubSeq(image_paths, Len(old) + 1, Len(image_paths))
        IN  /\ SubSeq(image_paths, 1, Len(old)) = old
            /\ Len(added) = call.added_count
            /\ NoDuplicate(added)
            /\ Range(added) \cap Range(old) = {}
            /\ NoDuplicate(old) => NoDuplicate(image_paths)
            /\ Range(call.errors) \cap Range(image_paths) = {}
            /\ call.skipped_count =
                  Len(call.paths) - call.added_count - Len(call.errors)
            /\ Range(call.paths) \subseteq Range(old) =>
                  /\ images = call.before.images
                  /\ image_paths = old
                  /\ call.success
                  /\ call.skipped_count = Len(call.paths)

\* C27 witness: a call given twice a path that was loaded before: nothing
\* added, two skipped, success
C27_Witness ==
    /\ call.phase = "done" /\ call.op = "load_images"
    /\ Len(call.paths) = 2
    /\ Range(call.paths) \subseteq Range(call.before.image_paths)
    /\ call.success /\ call.skipped_count = 2 /\ call.added_count = 0
    /\ image_paths = call.before.image_paths /\ image_paths # <<>>

----------------------------------------------------------------------------
(* The configuration and its file, checked under SpecConfig                *)

\* load_config returned (True, ...) for a file that save_config wrote
LoadedSavedFile ==
    /\ call.phase = "done" /\ call.op = "load_config" /\ call.success
    /\ "json" \in DOMAIN call.file /\ call.file.saved # None

\* C29: after save_config(path) succeeded, load_config(path) sets every
\* recognised key to exactly the value that was saved, aspect_ratio in
\* None, (1, 1), (4, 3), (16, 9) included.
C29_ConfigRoundTrip ==
    LoadedSavedFile =>
        \A key \in DOMAIN DefaultConfig : gui.config[key] = call.file.saved[key]

\* C30: a load_config that fails (file missing, bytes that are no JSON, a
\* document that is no object) returns (False, message) and leaves the
\* configuration as it was; one that succeeds gives the loaded value to the
\* keys the configuration has and to no other; the keys of the
\* configuration are at all times those of the default configuration.
C30_LoadFailsClean ==
    /\ DOMAIN gui.config = DOMAIN DefaultConfig
    /\ (call.phase = "done" /\ call.op = "load_config") =>
          /\ call.success <=>
                ("json" \in DOMAIN call.file /\ "object" \in DOMAIN call.file.json)
          /\ ~call.success => gui.config = call.before
          /\ call.success =>
                \A key \in DOMAIN DefaultConfig :
                    gui.config[key] =
                       IF key \in DOMAIN call.file.json.object
                       THEN PyOf(call.file.json.object[key])
                       ELSE call.before[key]

\* C30 witness: a load of an object with a known and an unknown key changed
\* the known one only
C30_Witness ==
    /\ call.phase = "done" /\ call.op = "load_config" /\ call.success
    /\ "zoom" \in DOMAIN call.file.json.object
    /\ gui.config.label_margin = PyInt(4)
    /\ call.before.label_margin = PyInt(10)
    /\ gui.config.rows = PyInt(3)

\* a failed load after the configuration was changed: the file holds an
\* array, the configuration keeps the changed ratio
C30_FailureWitness ==
    /\ call.phase = "done" /\ call.op = "load_config" /\ ~call.success
    /\ call.reason = "not_an_object"
    /\ gui.config.aspect_ratio = PyTuple(<<PyInt(4), PyInt(3)>>)
    /\ gui.config = call.before

=============================================================================
